---- MODULE Spec2Model ----
(***************************************************************************)
(* Model of the Recall.ai webhook endpoint (pages/api/webhook/recall.js),  *)
(* the in-memory call storage (lib/storage.js) and the coaching generator  *)
(* (lib/claude.js) of mvp-rtsc.                                            *)
(*                                                                         *)
(* JavaScript runs each handler to its next await without interleaving, so *)
(* one action is one synchronous stretch of a handler or of a promise      *)
(* callback.  Strings that the code inspects (transcript text) are         *)
(* sequences of one-character strings; other strings are TLA+ strings.     *)
(***************************************************************************)
EXTENDS Integers, Sequences, FiniteSets, TLC

(***************************************************************************)
(* Bounds of the model.                                                    *)
(***************************************************************************)
\* number of webhook deliveries in a behaviour
MaxRequests == 2
\* largest value of the wall clock
MaxClock == 1
\* number of finalized transcript events in the finals-only scenario
MaxFinals == 6
\* most candidate id fields present in one payload of the id scenario
MaxCandidates == 3
\* deliveries of the signature scenario
MaxSigned == 3
\* deliveries of the query scenario
MaxQueried == 4
\* largest limit handed to getLatestCoaching and getRecentTranscripts
MaxLimit == 3
\* longest message text, in tokens, the extraction is tried on
\* requests to the prompt settings API
MaxPromptOps == 3

\* webhook requests delivered in the two-meeting scenario
MaxIsolated == 4

\* webhook requests delivered while the dashboard polls
MaxPolled == 3
MaxInflight == 2

\* webhook requests delivered in the bot-ended scenario
MaxEnded == 5

MaxText == 4

\* webhook requests delivered in the append scenario, and coaching objects
\* stored in it
MaxAppends == 4
MaxCoached == 2

\* webhook requests delivered in the read scenario
MaxRead == 4
MaxRemoved == 4

(***************************************************************************)
(* Values.                                                                 *)
(***************************************************************************)
\* a property that is missing from an object (JavaScript undefined)
Absent == "<absent>"
MeetingIds == {"m1", "m2"}

\* JavaScript truthiness of a string-or-undefined value
Falsy(x) == x \in {Absent, ""}
\* a || b on string-or-undefined values
Or(a, b) == IF Falsy(a) THEN b ELSE a

(***************************************************************************)
(* Text: String.prototype.trim and Array.prototype.join, on sequences of   *)
(* characters.                                                             *)
(***************************************************************************)
\* A character is a string: an ASCII character is the one-character string
\* itself, a character outside ASCII is written by the name of its code
\* point, "U+" and four hexadecimal digits in upper case ("U+00E9").
\*
\* the ASCII white space and line terminators: space, tab, line feed,
\* carriage return, form feed and vertical tab (U+000B)
AsciiSpaces == {" ", "\t", "\n", "\r", "\f", ""}

\* the white space and line terminators outside ASCII: no-break space, the
\* byte order mark, the line and paragraph separators and the characters
\* of category Zs (ogham space mark, en quad to hair space, narrow no-break
\* space, medium mathematical space, ideographic space)
UnicodeSpaces ==
  {"U+00A0", "U+1680", "U+2000", "U+2001", "U+2002", "U+2003", "U+2004",
   "U+2005", "U+2006", "U+2007", "U+2008", "U+2009", "U+200A", "U+2028",
   "U+2029", "U+202F", "U+205F", "U+3000", "U+FEFF"}

\* whether trim() strips the character c
IsSpace(c) == c \in AsciiSpaces \cup UnicodeSpaces

RECURSIVE TrimStart(_)
TrimStart(s) ==
  IF s = <<>> THEN <<>>
  ELSE IF IsSpace(Head(s)) THEN TrimStart(Tail(s)) ELSE s

RECURSIVE TrimEnd(_)
TrimEnd(s) ==
  IF s = <<>> THEN <<>>
  ELSE IF IsSpace(s[Len(s)]) THEN TrimEnd(SubSeq(s, 1, Len(s) - 1)) ELSE s

Trim(s) == TrimEnd(TrimStart(s))

\* texts.join(' '): the elements separated by one space
RECURSIVE Join(_)
Join(texts) ==
  IF texts = <<>> THEN <<>>
  ELSE IF Len(texts) = 1 THEN texts[1]
  ELSE texts[1] \o <<" ">> \o Join(Tail(texts))

(***************************************************************************)
(* Sequences: Array.prototype.slice(-n) and reverse.                       *)
(***************************************************************************)
Min(a, b) == IF a <= b THEN a ELSE b

\* arr.slice(-n) for n >= 0; slice(-0) is slice(0), the whole array
SliceLast(arr, n) ==
  IF n = 0 THEN arr
  ELSE SubSeq(arr, Len(arr) - Min(n, Len(arr)) + 1, Len(arr))

Reverse(arr) == [i \in 1..Len(arr) |-> arr[Len(arr) + 1 - i]]

RemoveAt(arr, i) == SubSeq(arr, 1, i - 1) \o SubSeq(arr, i + 1, Len(arr))

(***************************************************************************)
(* State.                                                                  *)
(***************************************************************************)
VARIABLES
  calls,      \* CallStorage.calls: meeting id -> call context (a Map)
  handlers,   \* webhook handlers suspended at an await, in arrival order
  analyses,   \* generateSalesCoaching calls awaiting the LLM, in dispatch order
  responses,  \* the HTTP responses the webhook has sent
  delivered,  \* number of webhook requests received
  dispatched, \* meeting id -> number of generateSalesCoaching calls made for it
  answered,   \* meeting id -> number of those the LLM answered with a text
  failed,     \* meeting id -> number of those that got no text (the call
              \* threw, or its message has no content block)
  now,        \* the wall clock read by new Date()
  secret,     \* whether RECALL_WEBHOOK_SECRET is set
  exchange,   \* the last HTTP request observed together with its answer
  dashboard   \* the coaching dashboard: its meeting id, its meetingStatus
              \* and its fetchData calls in flight

vars == <<calls, handlers, analyses, responses, delivered, dispatched,
          answered, failed, now, secret, exchange, dashboard>>

(***************************************************************************)
(* lib/storage.js                                                          *)
(***************************************************************************)
\* the methods of the CallStorage class
StorageMethods ==
  {"getOrCreateCall", "addTranscript", "addCoaching", "getCall",
   "getLatestCoaching", "getRecentTranscripts", "getAllCalls", "deleteCall",
   "clear"}

NewCall(meetingId, t) ==
  [meetingId |-> meetingId,
   transcripts |-> <<>>,
   coachingRecommendations |-> <<>>,
   participants |-> {},
   startTime |-> t,
   lastUpdate |-> t]

\* the Map after getOrCreateCall(meetingId)
getOrCreateCall(cs, meetingId, t) ==
  IF meetingId \in DOMAIN cs THEN cs
  ELSE [k \in DOMAIN cs \cup {meetingId} |->
          IF k = meetingId THEN NewCall(meetingId, t) ELSE cs[k]]

\* a variant that lets a segment take the place of a partial one at the end
\* of the log
addTranscriptReplacingPartial(cs, meetingId, transcript, t) ==
  LET c1 == getOrCreateCall(cs, meetingId, t)
      old == c1[meetingId].transcripts
      kept == IF old # <<>> /\ old[Len(old)].is_partial
              THEN SubSeq(old, 1, Len(old) - 1) ELSE old
  IN [c1 EXCEPT ![meetingId] =
        [@ EXCEPT !.transcripts = Append(kept, [transcript EXCEPT !.timestamp = t]),
                  !.lastUpdate = t,
                  !.participants = IF Falsy(transcript.speaker) THEN @
                                   ELSE @ \cup {transcript.speaker}]]

\* a variant that assigns the log instead of pushing to it
addTranscriptOverwrite(cs, meetingId, transcript, t) ==
  LET c1 == getOrCreateCall(cs, meetingId, t)
  IN [c1 EXCEPT ![meetingId] =
        [@ EXCEPT !.transcripts = <<[transcript EXCEPT !.timestamp = t]>>,
                  !.lastUpdate = t,
                  !.participants = IF Falsy(transcript.speaker) THEN @
                                   ELSE @ \cup {transcript.speaker}]]

\* a variant that stamps lastUpdate on every call context of the Map
addTranscriptStampAll(cs, meetingId, transcript, t) ==
  LET c1 == getOrCreateCall(cs, meetingId, t)
  IN [k \in DOMAIN c1 |->
        IF k = meetingId
        THEN [c1[k] EXCEPT
                !.transcripts = Append(@, [transcript EXCEPT !.timestamp = t]),
                !.lastUpdate = t,
                !.participants = IF Falsy(transcript.speaker) THEN @
                                 ELSE @ \cup {transcript.speaker}]
        ELSE [c1[k] EXCEPT !.lastUpdate = t]]

\* the Map after addTranscript(meetingId, transcript)
addTranscript(cs, meetingId, transcript, t) ==
  LET c1 == getOrCreateCall(cs, meetingId, t)
  IN [c1 EXCEPT ![meetingId] =
        [@ EXCEPT !.transcripts = Append(@, [transcript EXCEPT !.timestamp = t]),
                  !.lastUpdate = t,
                  !.participants = IF Falsy(transcript.speaker) THEN @
                                   ELSE @ \cup {transcript.speaker}]]

\* the Map after addCoaching(meetingId, coaching)
addCoaching(cs, meetingId, coaching, t) ==
  LET c1 == getOrCreateCall(cs, meetingId, t)
  IN [c1 EXCEPT ![meetingId] =
        [@ EXCEPT !.coachingRecommendations =
                     Append(@, [coaching EXCEPT !.timestamp = t]),
                  !.lastUpdate = t]]

\* a variant of the getters' lookup that goes through getOrCreateCall
lookupOrCreate(cs, meetingId, t) == getOrCreateCall(cs, meetingId, t)

\* the Map after the this.calls.get(meetingId) of getCall, getLatestCoaching
\* and getRecentTranscripts at time t: nothing is set
lookup(cs, meetingId, t) == cs

\* the Map after deleteCall(meetingId) and after clear()
deleteCall(cs, meetingId) == [k \in DOMAIN cs \ {meetingId} |-> cs[k]]
clear(cs) == [k \in {} |-> cs[k]]

\* whether getCall(meetingId) is non-null
hasCall(cs, meetingId) == meetingId \in DOMAIN cs

\* a variant that names only the speaker of the newest segment
getParticipantsNewest(cs, meetingId) ==
  IF hasCall(cs, meetingId) /\ cs[meetingId].transcripts # <<>>
  THEN {cs[meetingId].transcripts[Len(cs[meetingId].transcripts)].speaker}
  ELSE {}

\* getCall(meetingId).participants, or [] for no call (call?.participants || [])
getParticipants(cs, meetingId) ==
  IF hasCall(cs, meetingId) THEN cs[meetingId].participants ELSE {}

getLatestCoaching(cs, meetingId, limit) ==
  IF ~hasCall(cs, meetingId) THEN <<>>
  ELSE Reverse(SliceLast(cs[meetingId].coachingRecommendations, limit))

\* a variant that takes the oldest entries, slice(0, limit)
getRecentTranscriptsOldest(cs, meetingId, limit) ==
  IF ~hasCall(cs, meetingId) THEN <<>>
  ELSE Reverse(SubSeq(cs[meetingId].transcripts, 1,
                      Min(limit, Len(cs[meetingId].transcripts))))

getRecentTranscripts(cs, meetingId, limit) ==
  IF ~hasCall(cs, meetingId) THEN <<>>
  ELSE Reverse(SliceLast(cs[meetingId].transcripts, limit))

(***************************************************************************)
(* Webhook payloads.  A request is a record                                *)
(*   method, body ("object", "null" for the JSON text null, "garbage" for  *)
(*   text that is not JSON), headers (the svix headers the request         *)
(*   carries), svix (what Webhook.verify finds when it is called: "valid"  *)
(*   or "invalid"; "none" for a request that carries no signature, which   *)
(*   does not verify), the seven id candidates, the three event-name       *)
(*   fields,                                                               *)
(*   words (data.data.words), participant (data.data.participant.name)     *)
(*   and transcript_id (data.transcript.id).                               *)
(***************************************************************************)
\* one element of data.data.words: an object with a text, an object without
\* one, or null
Word(t) == [kind |-> "object", hasText |-> TRUE, text |-> t]
WordNoText == [kind |-> "object", hasText |-> FALSE, text |-> <<>>]
WordNull == [kind |-> "null", hasText |-> FALSE, text |-> <<>>]

\* data.data.words: missing, an array, or another truthy value (a string, an
\* object) that has no map method
NoWords == [shape |-> "absent", items |-> <<>>]
WordArray(items) == [shape |-> "array", items |-> items]
WordsNotArray == [shape |-> "other", items |-> <<>>]

SvixHeaders == {"svix-id", "svix-timestamp", "svix-signature"}

BasePayload ==
  [method |-> "POST", body |-> "object", headers |-> {}, svix |-> "none",
   meeting_id |-> Absent, bot_id |-> Absent, data_bot_id |-> Absent,
   data_id |-> Absent, data_meeting_id |-> Absent, data_bot_dot_id |-> Absent,
   id |-> Absent,
   type |-> Absent, event_type |-> Absent, event |-> Absent,
   words |-> NoWords, participant |-> Absent, transcript_id |-> Absent]

TranscriptEvents == {"transcript.data", "transcript.partial_data"}
ActivatedEvents == {"bot.in_call_not_recording", "bot.in_call_recording",
                    "bot.recording_permission_allowed"}
EndedEvents == {"bot.call_ended", "bot.done", "bot.fatal"}
LegacyStartedEvents == {"call.started", "bot.joined_call"}
LegacyEndedEvents == {"call.ended", "bot.left_call"}

\* the canonical kind of a provider event name, as the handler's chain of
\* comparisons sorts it
EventKind(eventName) ==
  IF eventName = "transcript.partial_data" THEN "transcript-partial"
  ELSE IF eventName = "transcript.data" THEN "transcript-final"
  ELSE IF eventName = "transcript.done" THEN "transcript-done"
  ELSE IF eventName \in ActivatedEvents \cup LegacyStartedEvents THEN "bot-activated"
  ELSE IF eventName \in EndedEvents \cup LegacyEndedEvents THEN "bot-ended"
  ELSE "unrecognized"

\* a variant that looks at bot_id before meeting_id
ResolveMeetingIdBotFirst(p) ==
  Or(p.bot_id, Or(p.meeting_id, Or(p.data_bot_id, Or(p.data_id,
     Or(p.data_meeting_id, Or(p.data_bot_dot_id, p.id))))))

\* actualMeetingId: the first truthy candidate
ResolveMeetingId(p) ==
  Or(p.meeting_id, Or(p.bot_id, Or(p.data_bot_id, Or(p.data_id,
     Or(p.data_meeting_id, Or(p.data_bot_dot_id, p.id))))))

\* eventName = type || eventType || event
ResolveEventName(p) == Or(p.type, Or(p.event_type, p.event))

\* words.map(w => w.text) throws: words has no map, or an element is null
WordsThrow(words) ==
  \/ words.shape = "other"
  \/ \E i \in 1..Len(words.items) : words.items[i].kind = "null"

\* words.map(w => w.text).join(' '); join prints undefined as the empty string
TranscriptText(words) ==
  Join([i \in 1..Len(words.items) |->
          IF words.items[i].hasText THEN words.items[i].text ELSE <<>>])

\* transcriptText && transcriptText.trim()
TextIsKept(text) == text # <<>> /\ Trim(text) # <<>>

\* a variant without the sentinel: the name as the payload has it
TranscriptSpeakerRaw(p) == p.participant

\* data?.data?.participant?.name || 'Unknown'
TranscriptSpeaker(p) == Or(p.participant, "Unknown")

(***************************************************************************)
(* A stored transcript segment.  event_type, word_count and is_partial are *)
(* the metadata keys of a real-time segment, source that of a segment from *)
(* transcript.done (which has no is_partial key: FALSE stands for falsy).  *)
(***************************************************************************)
RealtimeSegment(p, eventName, t) ==
  [text |-> TranscriptText(p.words),
   speaker |-> TranscriptSpeaker(p),
   event_type |-> eventName,
   word_count |-> Len(p.words.items),
   is_partial |-> (eventName = "transcript.partial_data"),
   source |-> Absent,
   timestamp |-> t]

\* storage.getRecentTranscripts(actualMeetingId, 5)
WindowSize == 5
\* recentTranscripts.length >= 3
MinContext == 3

\* a variant that awaits the analysis
HandlerAwaitsAnalysisYes == TRUE

\* whether the handler awaits generateSalesCoaching before it goes on: it
\* attaches then/catch callbacks and does not
HandlerAwaitsAnalysis == FALSE

\* the generateSalesCoaching calls (zero or one) the transcript branch makes
\* on the store cs, after its append
\* a variant that hands over the window in arrival order
AnalysisCallsArrivalOrder(cs, meetingId) ==
  LET recentTranscripts ==
        IF hasCall(cs, meetingId)
        THEN SliceLast(cs[meetingId].transcripts, WindowSize) ELSE <<>>
  IN IF Len(recentTranscripts) >= MinContext
     THEN << [mid |-> meetingId,
              window |-> recentTranscripts,
              participants |-> getParticipants(cs, meetingId)] >>
     ELSE <<>>

AnalysisCalls(cs, meetingId) ==
  LET recentTranscripts == getRecentTranscripts(cs, meetingId, WindowSize)
  IN IF Len(recentTranscripts) >= MinContext
     THEN << [mid |-> meetingId,
              window |-> recentTranscripts,
              participants |-> getParticipants(cs, meetingId)] >>
     ELSE <<>>

(***************************************************************************)
(* pages/api/webhook/recall.js: the handler up to its first await after    *)
(* the body is read, or to its response.                                   *)
(***************************************************************************)
\* a variant that makes no analysis call after a partial segment
TranscriptStepFinalOnly(cs, p, meetingId, eventName, t) ==
  IF eventName \in TranscriptEvents /\ TextIsKept(TranscriptText(p.words))
  THEN LET c1 == addTranscript(cs, meetingId,
                               RealtimeSegment(p, eventName, t), t)
       IN [calls |-> c1,
           made |-> IF eventName = "transcript.partial_data" THEN <<>>
                    ELSE AnalysisCalls(c1, meetingId)]
  ELSE [calls |-> cs, made |-> <<>>]

\* the real-time transcript branch: the store after it and the analysis
\* calls it makes
TranscriptStep(cs, p, meetingId, eventName, t) ==
  IF eventName \in TranscriptEvents /\ TextIsKept(TranscriptText(p.words))
  THEN LET c1 == addTranscript(cs, meetingId,
                               RealtimeSegment(p, eventName, t), t)
       IN [calls |-> c1, made |-> AnalysisCalls(c1, meetingId)]
  ELSE [calls |-> cs, made |-> <<>>]

\* the storage method the bot status branches call for an event name
StatusMethod(eventName) ==
  IF eventName \in ActivatedEvents \cup LegacyStartedEvents THEN "activateCall"
  ELSE IF eventName \in EndedEvents \cup LegacyEndedEvents THEN "endCall"
  ELSE Absent

\* a variant that resolves or creates the call of every event first
StatusStepTouch(cs, meetingId, eventName, t) ==
  [calls |-> getOrCreateCall(cs, meetingId, t),
   threw |-> StatusMethod(eventName) \notin StorageMethods \cup {Absent}]

\* the bot status branches: the store after them, and whether they threw.
\* storage.activateCall and storage.endCall are not methods of CallStorage,
\* so the call is a TypeError and the store is as it was
StatusStep(cs, meetingId, eventName, t) ==
  [calls |-> cs,
   threw |-> StatusMethod(eventName) \notin StorageMethods \cup {Absent}]

\* a result of a synchronous stretch of the handler: next is "respond" with
\* an HTTP status, or the await the handler is suspended at
Result(cs, made, next, status, meetingId, kind) ==
  [calls |-> cs, made |-> made, next |-> next, status |-> status,
   mid |-> meetingId, kind |-> kind]

Reject(cs, status, meetingId, kind) ==
  Result(cs, <<>>, "respond", status, meetingId, kind)

\* req.headers['svix-id'] && req.headers['svix-timestamp'] &&
\* req.headers['svix-signature']
HasSvixHeaders(p) == SvixHeaders \subseteq p.headers

\* a variant that never verifies
VerifiesSignatureNever(p, hasSecret) == FALSE

\* a variant that verifies as soon as one svix header is present
VerifiesSignatureAnyHeader(p, hasSecret) == hasSecret /\ p.headers # {}

\* a variant that verifies every request once a secret is set
VerifiesSignatureWithSecret(p, hasSecret) == hasSecret

\* Webhook.verify is called: a secret is set and the svix triplet is present
VerifiesSignature(p, hasSecret) == hasSecret /\ HasSvixHeaders(p)

HandleSync(p, cs, hasSecret, t) ==
  LET meetingId == ResolveMeetingId(p)
      eventName == ResolveEventName(p)
      kind == EventKind(eventName)
      ts == TranscriptStep(cs, p, meetingId, eventName, t)
  IN IF p.method # "POST" THEN Reject(cs, 405, Absent, Absent)
     ELSE IF VerifiesSignature(p, hasSecret)
             /\ (p.svix # "valid" \/ p.body = "garbage")
       THEN Reject(cs, 401, Absent, Absent)
     ELSE IF ~VerifiesSignature(p, hasSecret) /\ p.body = "garbage"
       THEN Reject(cs, 500, Absent, Absent)     \* JSON.parse throws
     ELSE IF p.body = "null"
       THEN Reject(cs, 500, Absent, Absent)     \* destructuring null throws
     ELSE IF Falsy(meetingId) THEN Reject(cs, 400, Absent, Absent)
     ELSE IF eventName \in TranscriptEvents /\ WordsThrow(p.words)
       THEN Reject(cs, 500, Absent, Absent)     \* words.map throws
     ELSE IF ts.made # <<>> /\ HandlerAwaitsAnalysis
       THEN Result(ts.calls, ts.made, "analysis", 0, meetingId, kind)
     ELSE IF eventName = "transcript.done" /\ ~Falsy(p.transcript_id)
       THEN Result(ts.calls, ts.made, "fetch", 0, meetingId, kind)
     ELSE IF StatusStep(ts.calls, meetingId, eventName, t).threw
       THEN Reject(ts.calls, 500, Absent, Absent)
     ELSE Result(StatusStep(ts.calls, meetingId, eventName, t).calls, ts.made,
                 "respond", 200, meetingId, kind)

(***************************************************************************)
(* transcript.done: the transcript fetched from the Recall.ai API.         *)
(* A fetched segment may lack text, speaker, speaker_id (0 stands for a    *)
(* missing or zero id: both are falsy) and start.                          *)
(***************************************************************************)
FetchedSegment(hasText, text, speaker, speaker_id, hasStart, start) ==
  [hasText |-> hasText, text |-> text, speaker |-> speaker,
   speaker_id |-> speaker_id, hasStart |-> hasStart, start |-> start]

\* the parsed body: segments is missing, an array, or another truthy value
\* without forEach; "invalid" is a body json() rejects
FetchedBody(shape, items) == [shape |-> shape, items |-> items]

\* `Speaker ${n}`
SpeakerLabel(n) == "Speaker " \o ToString(n)

\* segment.speaker || `Speaker ${segment.speaker_id || index + 1}`, with i
\* the 1-based position of the segment
BulkSpeaker(seg, i) ==
  Or(seg.speaker, SpeakerLabel(IF seg.speaker_id # 0 THEN seg.speaker_id ELSE i))

\* new Date(segment.start * 1000): milliseconds from seconds
StartToTimestamp(start) == start * 1000

BulkSegment(seg, i) ==
  [text |-> seg.text,
   speaker |-> BulkSpeaker(seg, i),
   event_type |-> Absent,
   word_count |-> 0,
   is_partial |-> FALSE,
   source |-> "transcript.done",
   timestamp |-> StartToTimestamp(seg.start)]

\* if (segment.text)
BulkTextIsKept(seg) == seg.hasText /\ seg.text # <<>>

\* segments.forEach from position i on: a segment with text and without a
\* start makes toISOString throw, which ends the loop
RECURSIVE BulkAppendFrom(_, _, _, _, _)
BulkAppendFrom(cs, meetingId, items, i, t) ==
  IF i > Len(items) THEN cs
  ELSE IF ~BulkTextIsKept(items[i])
    THEN BulkAppendFrom(cs, meetingId, items, i + 1, t)
  ELSE IF ~items[i].hasStart THEN cs
  ELSE BulkAppendFrom(addTranscript(cs, meetingId, BulkSegment(items[i], i), t),
                      meetingId, items, i + 1, t)

\* the store after the body of the fetched transcript is handled
BulkAppend(cs, meetingId, body, t) ==
  IF body.shape = "array" THEN BulkAppendFrom(cs, meetingId, body.items, 1, t)
  ELSE cs

(***************************************************************************)
(* lib/claude.js.  The text of the message the LLM returns is a sequence   *)
(* of tokens: a code fence, the word json, an opening and a closing brace, *)
(* pair (a well-formed member of an object), scalar (a JSON number,        *)
(* boolean or null), string (a JSON string of two characters), array (a    *)
(* JSON array of two elements, no object among them) and word (anything    *)
(* else).                                                                  *)
(***************************************************************************)
Fence == "fence"

\* positions k >= j with a "}" at k directly followed by a fence
FencedEnds(text, j) ==
  {k \in j..(Len(text) - 1) : text[k] = "}" /\ text[k + 1] = Fence}

\* where the fenced pattern (fence, optional json, an object, fence) can
\* start its group after a fence at i, or 0
FencedStart(text, i) ==
  IF i + 1 <= Len(text) /\ text[i + 1] = "{" THEN i + 1
  ELSE IF i + 2 <= Len(text) /\ text[i + 1] = "json" /\ text[i + 2] = "{"
    THEN i + 2
  ELSE 0

FenceMatches(text) ==
  {i \in 1..Len(text) :
     /\ text[i] = Fence
     /\ FencedStart(text, i) # 0
     /\ FencedEnds(text, FencedStart(text, i)) # {}}

SetMin(S) == CHOOSE x \in S : \A y \in S : x <= y
SetMax(S) == CHOOSE x \in S : \A y \in S : x >= y

Braces(text, c) == {k \in 1..Len(text) : text[k] = c}

\* jsonMatch ? jsonMatch[1] : responseText
JsonText(text) ==
  IF FenceMatches(text) # {}
  THEN LET j == FencedStart(text, SetMin(FenceMatches(text)))
       IN SubSeq(text, j, SetMax(FencedEnds(text, j)))
  ELSE IF Braces(text, "{") # {}
          /\ \E k \in Braces(text, "}") : k > SetMin(Braces(text, "{"))
    THEN SubSeq(text, SetMin(Braces(text, "{")), SetMax(Braces(text, "}")))
  ELSE text

\* JSON.parse accepts the text: one object of well-formed members, or one
\* value that is no object
IsJsonObject(text) ==
  /\ Len(text) >= 2
  /\ text[1] = "{"
  /\ text[Len(text)] = "}"
  /\ \A k \in 2..(Len(text) - 1) : text[k] = "pair"

JsonValues == {"scalar", "string", "array"}

IsJsonScalar(text) == Len(text) = 1 /\ text[1] \in JsonValues

\* the own enumerable keys the spread { ...coaching } of addCoaching copies
\* from a value that is no object: the indices of a string's characters
\* and of an array's elements, none of a number, a boolean or null
SpreadKeys(value) == IF value \in {"string", "array"} THEN 2 ELSE 0

\* the coaching generateSalesCoaching returns for a message text: what
\* JSON.parse gives, or the fixed fallback structure
ExtractCoaching(text) ==
  IF IsJsonObject(JsonText(text))
  THEN [kind |-> "parsed", members |-> Len(JsonText(text)) - 2]
  ELSE IF IsJsonScalar(JsonText(text))
    THEN [kind |-> "scalar", members |-> SpreadKeys(JsonText(text)[1])]
  ELSE [kind |-> "fallback", members |-> 6]

\* an outcome of anthropic.messages.create: it throws, or resolves to a
\* message whose content is empty or starts with a text block
LlmThrows == [kind |-> "throws", text |-> <<>>]
LlmEmpty == [kind |-> "empty", text |-> <<>>]
LlmMessage(text) == [kind |-> "message", text |-> text]

\* generateSalesCoaching gets as far as its await of
\* anthropic.messages.create: storage.getPrompts(), called before it inside
\* the try block, is a function.  When it is not, the call throws a
\* TypeError, the catch block returns { success: false } and the promise is
\* settled before generateSalesCoaching returns it.
AnalysisAwaits == "getPrompts" \in StorageMethods

\* generateSalesCoaching resolves with success: true, when
\* anthropic.messages.create would settle with outcome
CoachingSucceeds(outcome) == AnalysisAwaits /\ outcome.kind = "message"

\* the entry the then-callback hands to addCoaching, for analysis call id
CoachingEntry(outcome, id) ==
  [kind |-> ExtractCoaching(outcome.text).kind,
   members |-> ExtractCoaching(outcome.text).members,
   from |-> id,
   timestamp |-> 0]

(***************************************************************************)
(* Inputs.                                                                 *)
(***************************************************************************)
WordsMenu ==
  {WordArray(<<Word(<<"a">>), Word(<<"U+00E9">>)>>),
   WordArray(<<Word(<<"U+2003">>), Word(<<"\t">>)>>),
   WordArray(<<WordNoText, WordNoText>>),
   WordArray(<<WordNull>>),
   NoWords,
   WordsNotArray}

\* real-time transcript deliveries; the bot id is at data.bot.id
TranscriptPayloads ==
  {[BasePayload EXCEPT !.data_bot_dot_id = m, !.event = e, !.words = w,
                       !.participant = "Rep"] :
     m \in MeetingIds, e \in TranscriptEvents, w \in WordsMenu}
  \cup
  {[BasePayload EXCEPT !.data_bot_dot_id = m, !.event = e,
                       !.words = WordArray(<<Word(<<"a">>), Word(<<"U+00E9">>)>>)] :
     m \in MeetingIds, e \in TranscriptEvents}

DonePayloads ==
  {[BasePayload EXCEPT !.data_bot_dot_id = m, !.event = "transcript.done",
                       !.transcript_id = tid] :
     m \in MeetingIds, tid \in {"t1", Absent}}

StatusPayloads ==
  {[BasePayload EXCEPT !.data_bot_dot_id = m, !.event = e] :
     m \in MeetingIds,
     e \in ActivatedEvents \cup EndedEvents \cup LegacyStartedEvents
            \cup LegacyEndedEvents}

\* event names outside the handler's table, and no event name at all
UnknownPayloads ==
  {[BasePayload EXCEPT !.bot_id = m, !.event_type = e] :
     m \in MeetingIds, e \in {"bot.status_change", "transcript.partial", Absent}}

OddPayloads ==
  {[BasePayload EXCEPT !.method = "GET"],
   [BasePayload EXCEPT !.body = "garbage"],
   [BasePayload EXCEPT !.body = "null"],
   [BasePayload EXCEPT !.event = "bot.done"],
   [BasePayload EXCEPT !.id = "m1", !.event = "bot.done",
                       !.headers = SvixHeaders, !.svix = "invalid"],
   [BasePayload EXCEPT !.id = "m1", !.type = "call.started",
                       !.headers = SvixHeaders, !.svix = "valid"]}

Payloads ==
  TranscriptPayloads \cup DonePayloads \cup StatusPayloads
    \cup UnknownPayloads \cup OddPayloads

\* the fetch throws, answers with a status that is not ok, or answers ok
FetchOutcomes == {"throws", "notok", "ok"}

SegA == FetchedSegment(TRUE, <<"a">>, "Customer", 0, TRUE, 5)
SegBlank == FetchedSegment(TRUE, <<" ">>, Absent, 0, TRUE, 5)
SegNoStart == FetchedSegment(TRUE, <<"a">>, Absent, 7, FALSE, 0)
SegNoText == FetchedSegment(FALSE, <<>>, "Rep", 0, FALSE, 0)

FetchedBodies ==
  {FetchedBody("invalid", <<>>),
   FetchedBody("absent", <<>>),
   FetchedBody("other", <<>>),
   FetchedBody("array", <<>>),
   FetchedBody("array", <<SegA>>),
   FetchedBody("array", <<SegBlank>>),
   FetchedBody("array", <<SegNoText, SegA>>),
   FetchedBody("array", <<SegA, SegNoStart, SegA>>),
   FetchedBody("array", <<SegA, SegA, SegA>>)}

LlmOutcomes ==
  {LlmThrows,
   LlmEmpty,
   LlmMessage(<<"{", "pair", "}">>),
   LlmMessage(<<"word", Fence, "json", "{", "pair", "}", Fence>>),
   LlmMessage(<<"word">>),
   LlmMessage(<<"word", "{", "word", "}">>),
   LlmMessage(<<Fence, "word", Fence>>),
   LlmMessage(<<"scalar">>),
   LlmMessage(<<"string">>)}

(***************************************************************************)
(* Initial state and actions.                                              *)
(***************************************************************************)
NoExchange == [op |-> "none"]

\* a JavaScript value of a prompt field: undefined (a missing property),
\* null, a string, a number, or an object such as an array
Undefined == [type |-> "undefined", v |-> ""]
Null == [type |-> "null", v |-> ""]
Str(s) == [type |-> "string", v |-> s]
Num(s) == [type |-> "number", v |-> s]
Arr == [type |-> "object", v |-> "[]"]

\* !x of JavaScript
Not(x) ==
  \/ x.type \in {"undefined", "null"}
  \/ x.type = "string" /\ x.v = ""
  \/ x.type = "number" /\ x.v = "0"

\* the dependencies [meetingId, meetingStatus] of the effect of a dashboard
EffectDeps(d) == [meetingId |-> d.meetingId, meetingStatus |-> d.meetingStatus]

\* the dashboard before a meeting id is in the route: useState('unknown'),
\* the effect has run once without a meeting id and returned, and no
\* fetchData call is made yet
NoDashboard ==
  [meetingId |-> Absent, meetingStatus |-> "unknown",
   effect |-> [meetingId |-> Absent, meetingStatus |-> "unknown"],
   fetching |-> <<>>]



Init ==
  /\ calls = [k \in {} |-> NewCall(k, 0)]
  /\ handlers = <<>>
  /\ analyses = <<>>
  /\ responses = {}
  /\ delivered = 0
  /\ dispatched = [m \in MeetingIds |-> 0]
  /\ answered = [m \in MeetingIds |-> 0]
  /\ failed = [m \in MeetingIds |-> 0]
  /\ now = 0
  /\ secret \in BOOLEAN
  /\ exchange = NoExchange
  /\ dashboard = NoDashboard

RECURSIVE SumOver(_, _)
SumOver(f, S) ==
  IF S = {} THEN 0
  ELSE LET x == CHOOSE y \in S : TRUE IN f[x] + SumOver(f, S \ {x})

\* the response res.status(status).json(...) of a request
Response(meetingId, kind, status) ==
  [mid |-> meetingId, kind |-> kind, status |-> status]

\* the in-flight generateSalesCoaching call made by request req
Analysis(call, id, req) ==
  [id |-> id, req |-> req, mid |-> call.mid, window |-> call.window,
   participants |-> call.participants]

\* a webhook request arrives and its handler runs to its first await or to
\* its response
DeliverWithin(p, max) ==
  /\ delivered < max
  /\ LET r == HandleSync(p, calls, secret, now)
         req == delivered + 1
     IN /\ calls' = r.calls
        /\ analyses' =
             IF r.made = <<>> THEN analyses
             ELSE Append(analyses,
                         Analysis(r.made[1],
                                  SumOver(dispatched, MeetingIds) + 1, req))
        /\ dispatched' =
             IF r.made = <<>> THEN dispatched
             ELSE [dispatched EXCEPT ![r.mid] = @ + 1]
        /\ handlers' =
             IF r.next = "respond" THEN handlers
             ELSE Append(handlers, [req |-> req, mid |-> r.mid,
                                    kind |-> r.kind, pc |-> r.next])
        /\ responses' =
             IF r.next = "respond"
             THEN responses \cup {Response(r.mid, r.kind, r.status)}
             ELSE responses
  /\ delivered' = delivered + 1
  /\ UNCHANGED <<answered, failed, now, secret, dashboard>>

Deliver(p) == DeliverWithin(p, MaxRequests) /\ UNCHANGED exchange

\* the same delivery, observed: the request is kept with the status and the
\* meeting id of its answer (status 0: the handler is suspended, no answer yet)
DeliverObserved(p, max) ==
  /\ DeliverWithin(p, max)
  /\ exchange' = [op |-> "webhook", arg |-> p,
                  status |-> HandleSync(p, calls, secret, now).status,
                  mid |-> HandleSync(p, calls, secret, now).mid]

\* the handler of transcript.done goes on to its status branches and its
\* response, on the store cs
FinishDone(i, cs) ==
  /\ calls' = StatusStep(cs, handlers[i].mid, "transcript.done", now).calls
  /\ responses' =
       responses \cup {Response(handlers[i].mid, handlers[i].kind, 200)}
  /\ handlers' = RemoveAt(handlers, i)
  /\ UNCHANGED <<analyses, delivered, dispatched, answered, failed, now,
                 secret, exchange, dashboard>>

\* the fetch of the transcript settles
FetchCompletes(i, outcome) ==
  /\ handlers[i].pc = "fetch"
  /\ IF outcome = "ok"
     THEN /\ handlers' = [handlers EXCEPT ![i].pc = "json"]
          /\ UNCHANGED <<calls, analyses, responses, delivered, dispatched,
                         answered, failed, now, secret, exchange, dashboard>>
     ELSE FinishDone(i, calls)

\* transcriptResponse.json() settles
JsonCompletes(i, body) ==
  /\ handlers[i].pc = "json"
  /\ FinishDone(i, IF body.shape = "invalid" THEN calls
                   ELSE BulkAppend(calls, handlers[i].mid, body, now))

\* the promise of generateSalesCoaching is settled and the then-callback of
\* the handler runs; outcome is what anthropic.messages.create settles
\* with, or would settle with were it called
AnalysisCompletes(i, outcome) ==
  /\ calls' = IF CoachingSucceeds(outcome)
              THEN addCoaching(calls, analyses[i].mid,
                               CoachingEntry(outcome, analyses[i].id), now)
              ELSE calls
  /\ answered' = IF CoachingSucceeds(outcome)
                 THEN [answered EXCEPT ![analyses[i].mid] = @ + 1]
                 ELSE answered
  /\ failed' = IF CoachingSucceeds(outcome) THEN failed
               ELSE [failed EXCEPT ![analyses[i].mid] = @ + 1]
  /\ analyses' = RemoveAt(analyses, i)
  /\ UNCHANGED <<handlers, responses, delivered, dispatched, now, secret,
                 exchange, dashboard>>

\* time passes
Tick ==
  /\ now < MaxClock
  /\ now' = now + 1
  /\ UNCHANGED <<calls, handlers, analyses, responses, delivered, dispatched,
                 answered, failed, secret, exchange, dashboard>>

Next ==
  \/ \E p \in Payloads : Deliver(p)
  \/ \E i \in 1..Len(handlers) : \E o \in FetchOutcomes : FetchCompletes(i, o)
  \/ \E i \in 1..Len(handlers) : \E b \in FetchedBodies : JsonCompletes(i, b)
  \/ \E i \in 1..Len(analyses) : \E o \in LlmOutcomes : AnalysisCompletes(i, o)
  \/ Tick

Spec == Init /\ [][Next]_vars

(***************************************************************************)
(* The finals-only scenario: from a fresh store, nothing but finalized     *)
(* real-time transcript events with text is delivered, while the analyses  *)
(* they dispatch complete in any order.                                    *)
(***************************************************************************)
FinalPayloads ==
  {p \in TranscriptPayloads :
     /\ p.event = "transcript.data"
     /\ ~WordsThrow(p.words)
     /\ TextIsKept(TranscriptText(p.words))}

\* the LLM call throws, or returns a message that is not JSON
FinalsLlmOutcomes == {LlmThrows, LlmMessage(<<"word">>)}

FinalsNext ==
  \/ \E p \in FinalPayloads : DeliverWithin(p, MaxFinals) /\ UNCHANGED exchange
  \/ \E i \in 1..Len(analyses) :
       \E o \in FinalsLlmOutcomes : AnalysisCompletes(i, o)

SpecFinals == Init /\ [][FinalsNext]_vars

(***************************************************************************)
(* The id scenario: one finalized transcript event with text is delivered  *)
(* to a fresh store; each candidate field of its payload is missing, the   *)
(* empty string or an id, with at most MaxCandidates fields present.       *)
(***************************************************************************)
IdValues == {Absent, ""} \cup MeetingIds

IdChoices ==
  {f \in [1..7 -> IdValues] :
     Cardinality({i \in 1..7 : f[i] # Absent}) <= MaxCandidates}

IdPayloads ==
  {[BasePayload EXCEPT !.event = "transcript.data",
                       !.words = WordArray(<<Word(<<"a">>)>>),
                       !.meeting_id = f[1], !.bot_id = f[2],
                       !.data_bot_id = f[3], !.data_id = f[4],
                       !.data_meeting_id = f[5], !.data_bot_dot_id = f[6],
                       !.id = f[7]] : f \in IdChoices}

IdsNext == \E p \in IdPayloads : delivered = 0 /\ DeliverObserved(p, MaxRequests)

SpecIds == Init /\ [][IdsNext]_vars

(***************************************************************************)
(* The signature scenario: a few payloads, each sent with none, two or all *)
(* of the svix headers and with a signature that verifies or does not.     *)
(***************************************************************************)
SignedCore ==
  {[BasePayload EXCEPT !.data_bot_dot_id = "m1", !.event = "transcript.data",
                       !.words = WordArray(<<Word(<<"a">>)>>),
                       !.participant = "Rep"],
   [BasePayload EXCEPT !.data_bot_dot_id = "m1", !.event = "transcript.done",
                       !.transcript_id = "t1"],
   [BasePayload EXCEPT !.bot_id = "m1", !.event_type = "bot.status_change"],
   [BasePayload EXCEPT !.event = "transcript.data",
                       !.words = WordArray(<<Word(<<"a">>)>>)],
   [BasePayload EXCEPT !.body = "garbage"]}

\* the svix headers a request carries: any of the three, or none

\* each body with every set of headers; the signature verifies or does not
\* where the three headers are there, and is of no account where one is
\* missing
SignedPayloads ==
  {[p EXCEPT !.headers = SvixHeaders, !.svix = v] :
     p \in SignedCore, v \in {"valid", "invalid"}}
  \cup
  {[p EXCEPT !.headers = h, !.svix = "invalid"] :
     p \in SignedCore, h \in (SUBSET SvixHeaders) \ {SvixHeaders}}

SignedNext ==
  \/ \E p \in SignedPayloads : DeliverObserved(p, MaxSigned)
  \/ \E i \in 1..Len(handlers) : \E o \in FetchOutcomes : FetchCompletes(i, o)
  \/ \E i \in 1..Len(handlers) : \E b \in FetchedBodies : JsonCompletes(i, b)
  \/ \E i \in 1..Len(analyses) :
       \E o \in FinalsLlmOutcomes : AnalysisCompletes(i, o)

SpecSigned == Init /\ [][SignedNext]_vars

(***************************************************************************)
(* The coaching API, GET /api/coaching/[meetingId].  A request is a record *)
(* method, meetingId (req.query.meetingId) and latest (req.query.latest).  *)
(***************************************************************************)
\* storage.getLatestCoaching(meetingId, 5)
LatestCoachingLimit == 5
\* storage.getRecentTranscripts(meetingId, 10)
RecentTranscriptsLimit == 10

Answer(status, kind, coaching, transcripts, data) ==
  [status |-> status, kind |-> kind, coaching |-> coaching,
   transcripts |-> transcripts, data |-> data]

\* a variant that looks the call up before the latest branch
QueryAnswerStrict(q, cs) ==
  IF Falsy(q.meetingId) THEN Answer(400, "error", <<>>, <<>>, Absent)
  ELSE IF q.method # "GET" THEN Answer(405, "error", <<>>, <<>>, Absent)
  ELSE IF ~hasCall(cs, q.meetingId)
    THEN Answer(404, "error", <<>>, <<>>, Absent)
  ELSE IF q.latest = "true"
    THEN Answer(200, "latest",
                getLatestCoaching(cs, q.meetingId, LatestCoachingLimit),
                getRecentTranscripts(cs, q.meetingId, RecentTranscriptsLimit),
                Absent)
  ELSE Answer(200, "full", <<>>, <<>>, cs[q.meetingId])

\* the answer of the handler to request q on the store cs
QueryAnswer(q, cs) ==
  IF Falsy(q.meetingId) THEN Answer(400, "error", <<>>, <<>>, Absent)
  ELSE IF q.method # "GET" THEN Answer(405, "error", <<>>, <<>>, Absent)
  ELSE IF q.latest = "true"
    THEN Answer(200, "latest",
                getLatestCoaching(cs, q.meetingId, LatestCoachingLimit),
                getRecentTranscripts(cs, q.meetingId, RecentTranscriptsLimit),
                Absent)
  ELSE IF ~hasCall(cs, q.meetingId)
    THEN Answer(404, "error", <<>>, <<>>, Absent)
  ELSE Answer(200, "full", <<>>, <<>>, cs[q.meetingId])

Queries ==
  [method : {"GET"}, meetingId : MeetingIds, latest : {"true", Absent}]
    \cup {[method |-> "GET", meetingId |-> "m1", latest |-> "false"],
          [method |-> "GET", meetingId |-> Absent, latest |-> "true"],
          [method |-> "POST", meetingId |-> "m1", latest |-> "true"]}

\* the Map after the handler has answered request q: the getters are called
\* once the meeting id and the method have passed
QueryStore(q, cs, t) ==
  IF Falsy(q.meetingId) \/ q.method # "GET" THEN cs
  ELSE lookup(cs, q.meetingId, t)

\* the coaching API handles request q
Query(q) ==
  /\ exchange' = [op |-> "coaching", arg |-> q, answer |-> QueryAnswer(q, calls)]
  /\ calls' = QueryStore(q, calls, now)
  /\ UNCHANGED <<handlers, analyses, responses, delivered, dispatched,
                 answered, failed, now, secret, dashboard>>

\* getLatestCoaching and getRecentTranscripts are called with limit n
ReadRecent(m, n) ==
  /\ exchange' = [op |-> "storage", mid |-> m, limit |-> n,
                  coaching |-> getLatestCoaching(calls, m, n),
                  transcripts |-> getRecentTranscripts(calls, m, n)]
  /\ calls' = lookup(calls, m, now)
  /\ UNCHANGED <<handlers, analyses, responses, delivered, dispatched,
                 answered, failed, now, secret, dashboard>>

(***************************************************************************)
(* The query scenario: finalized transcript events with text build the     *)
(* logs, their analyses complete, and the store is read at any moment.     *)
(***************************************************************************)
QueryNext ==
  \/ \E p \in FinalPayloads : DeliverWithin(p, MaxQueried) /\ UNCHANGED exchange
  \/ \E i \in 1..Len(analyses) :
       \E o \in FinalsLlmOutcomes : AnalysisCompletes(i, o)
  \/ \E q \in Queries : Query(q)
  \/ \E m \in MeetingIds : \E n \in 0..MaxLimit : ReadRecent(m, n)

SpecQuery == Init /\ [][QueryNext]_vars

(***************************************************************************)
(* The speakers scenario: finalized transcript events with text, spoken by *)
(* Rep or by Customer, arrive for one meeting while the analyses they      *)
(* dispatch complete in any order.                                         *)
(***************************************************************************)
SpokenPayloads ==
  {[BasePayload EXCEPT !.data_bot_dot_id = "m1", !.event = "transcript.data",
                       !.words = WordArray(<<Word(<<"a">>)>>),
                       !.participant = s] : s \in {"Rep", "Customer"}}

SpeakersNext ==
  \/ \E p \in SpokenPayloads : DeliverWithin(p, MaxFinals) /\ UNCHANGED exchange
  \/ \E i \in 1..Len(analyses) :
       \E o \in FinalsLlmOutcomes : AnalysisCompletes(i, o)

SpecSpeakers == Init /\ [][SpeakersNext]_vars

(***************************************************************************)
(* Properties.                                                             *)
(***************************************************************************)
\* length of the transcript log and of the coaching log of a meeting
LogLen(cs, m) == IF hasCall(cs, m) THEN Len(cs[m].transcripts) ELSE 0
CoachLen(cs, m) == IF hasCall(cs, m) THEN Len(cs[m].coachingRecommendations) ELSE 0

Last(arr) == arr[Len(arr)]

IsPrefix(a, b) == Len(a) <= Len(b) /\ SubSeq(b, 1, Len(a)) = a

\* w holds exactly the n newest entries of log, newest first
IsNewest(w, log, n) ==
  /\ Len(w) = n
  /\ n <= Len(log)
  /\ \A i \in 1..n : w[i] = log[Len(log) + 1 - i]

\* the in-flight analyses of meeting m
InFlight(m) == {i \in 1..Len(analyses) : analyses[i].mid = m}

\* C1, count: in the finals-only scenario a session of n segments has had
\* max(0, n - 2) analyses dispatched.
C1_Count ==
  \A m \in MeetingIds :
    dispatched[m] = IF LogLen(calls, m) >= 3 THEN LogLen(calls, m) - 2 ELSE 0

\* C1, step: the k-th append to a session dispatches one analysis if k >= 3
\* and none if k < 3, and the window of that analysis is the min(k, 5)
\* newest segments of the session.
C1_Step ==
  \A m \in MeetingIds :
    LogLen(calls', m) = LogLen(calls, m) + 1 =>
      LET k == LogLen(calls', m)
      IN IF k >= 3
         THEN /\ dispatched'[m] = dispatched[m] + 1
              /\ Len(analyses') = Len(analyses) + 1
              /\ Last(analyses').mid = m
              /\ IsNewest(Last(analyses').window, calls'[m].transcripts,
                          Min(k, 5))
         ELSE /\ dispatched'[m] = dispatched[m]
              /\ analyses' = analyses

\* C1: from a fresh session, finalized transcript events with text applied
\* one after another dispatch an analysis at the k-th append exactly when
\* k >= 3, with the min(k, 5) most recent segments as its window, so that n
\* appends dispatch max(0, n - 2) analyses.
C1_Windowing == [](C1_Count) /\ [][C1_Step]_vars

\* C1 witness: a session of six finalized segments has dispatched four
\* analyses, the newest of them still in flight with a window of five.
C1_Witness ==
  \E m \in MeetingIds :
    /\ LogLen(calls, m) = 6
    /\ dispatched[m] = 4
    /\ \E i \in InFlight(m) :
         /\ Len(analyses[i].window) = 5
         /\ analyses[i].window[1] = Last(calls[m].transcripts)

\* a delivery that passes the method, signature and body checks and whose
\* meeting id resolves
Accepted(p) ==
  /\ p.method = "POST"
  /\ p.body = "object"
  /\ ~(VerifiesSignature(p, secret) /\ p.svix # "valid")
  /\ ~Falsy(ResolveMeetingId(p))

\* a real-time transcript delivery whose words are well formed and whose
\* text is not blank
HasText(p) == ~WordsThrow(p.words) /\ Trim(TranscriptText(p.words)) # <<>>

\* the deliveries of the menu by the kind of their event
RealtimeWithText ==
  {p \in Payloads : ResolveEventName(p) \in TranscriptEvents /\ HasText(p)}
PartialWithText ==
  {p \in RealtimeWithText : ResolveEventName(p) = "transcript.partial_data"}
ActivatedPosts ==
  {p \in Payloads : EventKind(ResolveEventName(p)) = "bot-activated"}
UnrecognizedPosts ==
  {p \in Payloads : EventKind(ResolveEventName(p)) = "unrecognized"}

\* C2 as claimed: a transcript-partial event with text stores the partial
\* segment and never dispatches an analysis.
C2_PartialNeverDispatches ==
  [][\A p \in PartialWithText :
       (Accepted(p) /\ Deliver(p))
       => /\ LogLen(calls', ResolveMeetingId(p))
               = LogLen(calls, ResolveMeetingId(p)) + 1
          /\ analyses' = analyses
          /\ dispatched' = dispatched]_vars

\* C2 amended: a transcript-partial event with text stores the partial
\* segment at the end of the log and dispatches an analysis exactly when the
\* session then holds three or more segments, as a finalized event does.
C2_PartialDispatches ==
  [][\A p \in PartialWithText :
       (Accepted(p) /\ Deliver(p))
       => LET m == ResolveMeetingId(p)
          IN /\ LogLen(calls', m) = LogLen(calls, m) + 1
             /\ Last(calls'[m].transcripts).is_partial
             /\ dispatched'[m] =
                  dispatched[m] + (IF LogLen(calls', m) >= 3 THEN 1 ELSE 0)
             /\ Len(analyses') =
                  Len(analyses) + (IF LogLen(calls', m) >= 3 THEN 1 ELSE 0)]_vars

\* C2 witness: an analysis is in flight whose newest window entry is a
\* partial segment, the one whose append dispatched it.
C2_Witness ==
  \E i \in 1..Len(analyses) :
    /\ analyses[i].window[1].is_partial
    /\ analyses[i].window[1] = Last(calls[analyses[i].mid].transcripts)

\* C3 as claimed: the completion of an analysis whose LLM call is answered
\* with a message appends exactly one coaching entry to the session of the
\* meeting it was dispatched for, the completion of one whose LLM call
\* fails appends nothing; and a session's coaching log never has more
\* entries than analyses were dispatched for it.
C3_OneResultPerResponse ==
  /\ [][\A i \in 1..Len(analyses) :
         \A o \in LlmOutcomes :
           AnalysisCompletes(i, o)
           => IF o.kind = "message"
              THEN /\ hasCall(calls', analyses[i].mid)
                   /\ CoachLen(calls', analyses[i].mid)
                        = CoachLen(calls, analyses[i].mid) + 1
              ELSE calls' = calls]_vars
  /\ [](\A m \in MeetingIds : CoachLen(calls, m) <= dispatched[m])

\* C4: while an analysis is in flight, the handler that dispatched it is not
\* suspended: it has sent its success response for that meeting.
C4_ResponseDoesNotWait ==
  \A i \in 1..Len(analyses) :
    /\ \A j \in 1..Len(handlers) : handlers[j].req # analyses[i].req
    /\ \E r \in responses :
         /\ r.mid = analyses[i].mid
         /\ r.kind \in {"transcript-final", "transcript-partial"}
         /\ r.status = 200

\* C4 witness: the response of a dispatching delivery is out while its
\* analysis is in flight, no result of it stored yet.
C4_Witness ==
  \E i \in 1..Len(analyses) :
    /\ CoachLen(calls, analyses[i].mid) = 0
    /\ \E r \in responses : r.mid = analyses[i].mid /\ r.status = 200
                             /\ r.kind = "transcript-final"

\* C5 as claimed: every delivery whose signature check passes or is skipped
\* and whose meeting id resolves is answered 200, at once or once its
\* handler resumes (status 0: the handler is suspended at the fetch).
C5_AlwaysSuccess ==
  [][\A p \in Payloads :
       (Accepted(p) /\ Deliver(p))
       => HandleSync(p, calls, secret, now).status \in {0, 200}]_vars

\* call.status of the context of a meeting: undefined where the store has no
\* context of it and where the context has no such field
SessionStatus(cs, m) ==
  IF hasCall(cs, m) /\ "status" \in DOMAIN cs[m] THEN cs[m].status ELSE Absent

\* C6 as claimed: a session that is ended stays ended whatever the step,
\* and a bot-activated event that was accepted leaves its session active,
\* or ended if it was ended.
C6_StatusForward ==
  [][/\ \A m \in MeetingIds :
          SessionStatus(calls, m) = "ended" => SessionStatus(calls', m) = "ended"
     /\ \A p \in ActivatedPosts :
          (Accepted(p) /\ Deliver(p))
          => LET m == ResolveMeetingId(p)
             IN SessionStatus(calls', m) =
                  IF SessionStatus(calls, m) = "ended"
                  THEN "ended" ELSE "active"]_vars

\* C7 as claimed: every stored segment has text that is not blank.
C7_TextNeverBlank ==
  \A m \in DOMAIN calls :
    \A i \in 1..Len(calls[m].transcripts) :
      Trim(calls[m].transcripts[i].text) # <<>>

\* C9: a delivery whose event name is in none of the handler's comparisons
\* is answered 200 and changes nothing: no session is created or changed, no
\* handler is left waiting on a fetch, no analysis is dispatched.
C9_UnrecognizedIsNoOp ==
  [][\A p \in UnrecognizedPosts :
       (Accepted(p) /\ Deliver(p))
       => /\ calls' = calls
          /\ analyses' = analyses
          /\ handlers' = handlers
          /\ dispatched' = dispatched
          /\ Response(ResolveMeetingId(p), "unrecognized", 200) \in responses']_vars

\* C9 witness: an unrecognized event was answered 200 and its meeting has no
\* session.
C9_Witness ==
  \E r \in responses :
    r.kind = "unrecognized" /\ r.status = 200 /\ ~hasCall(calls, r.mid)

RecognisedKinds ==
  {"transcript-partial", "transcript-final", "transcript-done",
   "bot-activated", "bot-ended"}

\* C10 as claimed: once an event of a recognised kind has been applied, a
\* session of its meeting exists.
C10_SessionExists ==
  \A r \in responses :
    (r.status = 200 /\ r.kind \in RecognisedKinds) => hasCall(calls, r.mid)

\* the deliveries of the menu whose body parses and in which no candidate
\* field holds an identifier
NoIdPosts ==
  {p \in Payloads :
     /\ p.method = "POST"
     /\ p.body \in {"object", "null"}
     /\ Falsy(ResolveMeetingId(p))}

\* C11 as claimed: a parsed payload without an identifier in any candidate
\* field is answered 400, never 500, and the step leaves the store, the
\* suspended handlers and the analyses as they were.
C11_MissingIdIsClientError ==
  [][\A p \in NoIdPosts :
       (~(VerifiesSignature(p, secret) /\ p.svix # "valid") /\ Deliver(p))
       => /\ Response(Absent, Absent, 400) \in responses'
          /\ responses' \ responses \subseteq {Response(Absent, Absent, 400)}
          /\ calls' = calls
          /\ handlers' = handlers
          /\ analyses' = analyses]_vars

\* the candidate fields of a payload in the order the claim gives them
Candidates(p) ==
  <<p.meeting_id, p.bot_id, p.data_bot_id, p.data_id, p.data_meeting_id,
    p.data_bot_dot_id, p.id>>

\* the first candidate that is an identifier, Absent when there is none
FirstNonEmpty(p) ==
  LET c == Candidates(p)
      S == {i \in 1..Len(c) : c[i] \in MeetingIds}
  IN IF S = {} THEN Absent ELSE c[SetMin(S)]

\* C12: the id the handler answers with, and under which it stores the
\* segment, is the first candidate in the order meeting_id, bot_id,
\* data.bot_id, data.id, data.meeting_id, data.bot.id, id that is not missing
\* and not empty; without such a candidate the answer is 400.
C12_FirstNonEmptyWins ==
  exchange.op = "webhook"
  => LET first == FirstNonEmpty(exchange.arg)
     IN IF first = Absent
        THEN exchange.status = 400 /\ calls = [k \in {} |-> NewCall(k, 0)]
        ELSE /\ exchange.status = 200
             /\ exchange.mid = first
             /\ DOMAIN calls = {first}

\* C12 witness: an empty meeting_id, then bot_id m2 and id m1: the segment
\* went to m2.
C12_Witness ==
  /\ exchange.op = "webhook"
  /\ exchange.arg.meeting_id = ""
  /\ exchange.arg.bot_id = "m2"
  /\ exchange.arg.id = "m1"
  /\ exchange.mid = "m2"
  /\ LogLen(calls, "m2") = 1

\* C13: with a secret set, the delivery of a request that carries the three
\* svix headers and a signature that does not verify is answered 401 and
\* leaves the store, the suspended handlers (no fetch is started) and the
\* analyses as they were.
C13_BadSignatureDiscarded ==
  [][(/\ delivered' = delivered + 1
      /\ secret
      /\ HasSvixHeaders(exchange'.arg)
      /\ exchange'.arg.svix = "invalid")
     => /\ exchange'.status = 401
        /\ Response(Absent, Absent, 401) \in responses'
        /\ calls' = calls
        /\ handlers' = handlers
        /\ analyses' = analyses
        /\ dispatched' = dispatched]_vars

\* C13 witness: a finalized transcript event with text and a bad signature
\* was answered 401 while its session holds two segments: applied, it would
\* have stored a third and dispatched an analysis.
C13_Witness ==
  /\ secret
  /\ exchange.op = "webhook"
  /\ exchange.status = 401
  /\ exchange.arg.event = "transcript.data"
  /\ exchange.arg.data_bot_dot_id = "m1"
  /\ LogLen(calls, "m1") = 2
  /\ analyses = <<>>

\* C14: in every reachable state, whether or not a secret is set, a request
\* that lacks one of the svix headers has the outcome (store, analysis
\* dispatched, await or answer, status, meeting id) of the request with the
\* same body, all three headers and a signature that verifies; for a body
\* that is not JSON, which no path applies, only the store and the dispatch
\* are compared.
C14_UnsignedAppliedAsVerified ==
  \A p \in SignedCore :
    \A h \in (SUBSET SvixHeaders) \ {SvixHeaders} :
      \A v \in {"valid", "invalid"} :
        LET unsigned == HandleSync([p EXCEPT !.headers = h, !.svix = v],
                                   calls, secret, now)
            verified == HandleSync([p EXCEPT !.headers = SvixHeaders,
                                             !.svix = "valid"],
                                   calls, secret, now)
        IN /\ unsigned.calls = verified.calls
           /\ unsigned.made = verified.made
           /\ p.body # "garbage" => unsigned = verified

\* C14 witness: with a secret set, a transcript event sent with two of the
\* three headers and a signature that would not verify was answered 200 and
\* its segment is stored.
C14_Witness ==
  /\ secret
  /\ exchange.op = "webhook"
  /\ Cardinality(exchange.arg.headers) = 2
  /\ exchange.arg.svix = "invalid"
  /\ exchange.arg.event = "transcript.data"
  /\ exchange.status = 200
  /\ exchange.mid = "m1"
  /\ LogLen(calls, "m1") >= 1
  /\ Last(calls["m1"].transcripts).text = <<"a">>

\* C15: a GET of the coaching API for a meeting without a session is
\* answered 200 with empty coaching and transcripts when latest=true, and
\* 404 otherwise; never 500.
C15_UnknownMeeting ==
  [][(exchange' # exchange /\ exchange'.op = "coaching")
     => LET q == exchange'.arg
            a == exchange'.answer
        IN (/\ q.method = "GET"
            /\ q.meetingId \in MeetingIds
            /\ ~hasCall(calls, q.meetingId))
           => IF q.latest = "true"
              THEN a.status = 200 /\ a.coaching = <<>> /\ a.transcripts = <<>>
              ELSE a.status = 404]_vars

\* C15 witness: while m1 has a session with a segment, the latest slice of
\* m2, which has none, was answered 200 and empty.
C15_Witness ==
  /\ exchange.op = "coaching"
  /\ exchange.arg = [method |-> "GET", meetingId |-> "m2", latest |-> "true"]
  /\ exchange.answer.status = 200
  /\ exchange.answer.coaching = <<>>
  /\ exchange.answer.transcripts = <<>>
  /\ ~hasCall(calls, "m2")
  /\ LogLen(calls, "m1") >= 1

\* the min(n, length) newest entries of log, newest first
NewestFirst(log, n) ==
  [i \in 1..Min(n, Len(log)) |-> log[Len(log) + 1 - i]]

\* C16 as claimed: for every limit n >= 0, getLatestCoaching and
\* getRecentTranscripts return the min(n, length) newest entries of the
\* log, newest first.
C16_NewestUpToLimit ==
  [][(exchange' # exchange /\ exchange'.op = "storage")
     => LET m == exchange'.mid
            n == exchange'.limit
        IN /\ exchange'.transcripts =
                NewestFirst(IF hasCall(calls, m) THEN calls[m].transcripts
                            ELSE <<>>, n)
           /\ exchange'.coaching =
                NewestFirst(IF hasCall(calls, m)
                            THEN calls[m].coachingRecommendations ELSE <<>>, n)]_vars

\* what the claim of C17 expects of a fetched transcript handled at time t:
\* the text and the timestamp of each segment with text, in order
RECURSIVE ExpectedBulk(_, _)
ExpectedBulk(items, t) ==
  IF items = <<>> THEN <<>>
  ELSE LET seg == items[1]
           rest == ExpectedBulk(Tail(items), t)
       IN IF BulkTextIsKept(seg)
          THEN <<[text |-> seg.text,
                  timestamp |-> IF seg.hasStart THEN StartToTimestamp(seg.start)
                                ELSE t]>> \o rest
          ELSE rest

\* C17 as claimed: when the fetched transcript of a transcript-done arrives,
\* every segment of it that has text is appended, in order, with the
\* timestamp of its start when it has one and with the current time
\* otherwise.
C17_BulkKeepsSourceTime ==
  [][\A i \in 1..Len(handlers) :
       \A b \in FetchedBodies :
         (b.shape = "array" /\ JsonCompletes(i, b))
         => LET m == handlers[i].mid
                exp == ExpectedBulk(b.items, now)
                old == LogLen(calls, m)
            IN /\ LogLen(calls', m) = old + Len(exp)
               /\ \A k \in 1..Len(exp) :
                    /\ calls'[m].transcripts[old + k].text = exp[k].text
                    /\ calls'[m].transcripts[old + k].timestamp
                         = exp[k].timestamp]_vars

\* C18: the delivery of a real-time transcript event with text leaves the
\* log as it was with one segment more at its end, whose partial flag is
\* true exactly when the event is transcript.partial_data and whose text is
\* that of the event; so a partial and the final that follows it are two
\* segments, in arrival order.
C18_PartialAndFinalBothKept ==
  [][\A p \in RealtimeWithText :
       (Accepted(p) /\ Deliver(p))
       => LET m == ResolveMeetingId(p)
              old == IF hasCall(calls, m) THEN calls[m].transcripts ELSE <<>>
          IN /\ hasCall(calls', m)
             /\ Len(calls'[m].transcripts) = Len(old) + 1
             /\ SubSeq(calls'[m].transcripts, 1, Len(old)) = old
             /\ Last(calls'[m].transcripts).is_partial
                  = (ResolveEventName(p) = "transcript.partial_data")
             /\ Last(calls'[m].transcripts).text = TranscriptText(p.words)]_vars

\* C18 witness: a partial segment is followed in the log by a non-partial one
\* with the same text and speaker.
C18_Witness ==
  \E m \in DOMAIN calls :
    \E i \in 1..(Len(calls[m].transcripts) - 1) :
      LET a == calls[m].transcripts[i]
          b == calls[m].transcripts[i + 1]
      IN /\ a.is_partial /\ ~b.is_partial
         /\ a.event_type = "transcript.partial_data"
         /\ b.event_type = "transcript.data"
         /\ a.text = b.text /\ a.speaker = b.speaker

\* the message texts of up to MaxText tokens
Tokens == {Fence, "json", "{", "}", "pair", "scalar", "string", "array", "word"}
Texts == UNION {[1..n -> Tokens] : n \in 0..MaxText}

\* the text holds a well-formed object somewhere
HasObject(text) ==
  \E i \in 1..Len(text) : \E j \in (i + 1)..Len(text) :
    /\ text[i] = "{" /\ text[j] = "}"
    /\ \A k \in (i + 1)..(j - 1) : text[k] = "pair"

\* neither valid JSON nor a text with a JSON object in it
NotJson(text) == ~IsJsonScalar(text) /\ ~HasObject(text)

\* the texts among Texts that are not JSON all yield the same fallback
ExtractionFallsBack ==
  \A text \in Texts :
    NotJson(text) => ExtractCoaching(text) = [kind |-> "fallback", members |-> 6]

\* C19 as claimed: for every message text that is not JSON the extraction
\* yields the one fallback structure, and the completion of an analysis
\* whose LLM call is answered with such a text appends exactly one coaching
\* entry, that fallback, to the session.
C19_FallbackOnBadJson ==
  [][/\ ExtractionFallsBack
     /\ \A i \in 1..Len(analyses) :
          \A o \in LlmOutcomes :
            (o.kind = "message" /\ NotJson(o.text) /\ AnalysisCompletes(i, o))
            => LET m == analyses[i].mid
               IN /\ CoachLen(calls', m) = CoachLen(calls, m) + 1
                  /\ Last(calls'[m].coachingRecommendations)
                       = [kind |-> "fallback", members |-> 6,
                          from |-> analyses[i].id, timestamp |-> now]
                  /\ answered'[m] = answered[m] + 1
                  /\ failed' = failed]_vars

\* the speakers of the first n segments of a log
SpeakersOf(log, n) == {log[i].speaker : i \in 1..n}

\* C20: the analysis dispatched by the append of the n-th segment of a
\* session (the (n-2)-th dispatched) carries as participants the speakers of
\* the first n segments; and after segments by Rep, Customer, Rep on a fresh
\* session exactly one analysis has been dispatched, on the 3 segments, with
\* participants Rep and Customer.
C20_ParticipantsAreSpeakers ==
  /\ \A j \in 1..Len(analyses) :
       LET a == analyses[j]
           n == a.id + MinContext - 1
           log == calls[a.mid].transcripts
       IN /\ n <= Len(log)
          /\ a.participants = SpeakersOf(log, n)
          /\ a.window[1] = log[n]
  /\ (/\ LogLen(calls, "m1") = 3
      /\ calls["m1"].transcripts[1].speaker = "Rep"
      /\ calls["m1"].transcripts[2].speaker = "Customer"
      /\ calls["m1"].transcripts[3].speaker = "Rep")
     => /\ dispatched["m1"] = 1
        /\ \A j \in 1..Len(analyses) :
             /\ Len(analyses[j].window) = 3
             /\ analyses[j].participants = {"Rep", "Customer"}

\* C20 witness: Rep, Customer, Rep were stored on a fresh session and the one
\* analysis dispatched is in flight with participants Rep and Customer.
C20_Witness ==
  /\ LogLen(calls, "m1") = 3
  /\ calls["m1"].transcripts[1].speaker = "Rep"
  /\ calls["m1"].transcripts[2].speaker = "Customer"
  /\ calls["m1"].transcripts[3].speaker = "Rep"
  /\ Len(analyses) = 1
  /\ dispatched["m1"] = 1
  /\ Len(analyses[1].window) = 3
  /\ analyses[1].participants = {"Rep", "Customer"}


(***************************************************************************)
(* The bot-ended scenario: finalized transcript events and bot status      *)
(* events for two meetings, delivered in any order while the clock runs    *)
(* and the dispatched analyses complete.  Each delivery is kept with the   *)
(* session of its meeting as it stood when the request arrived.            *)
(***************************************************************************)
EndedPayloads ==
  {[BasePayload EXCEPT !.data_bot_dot_id = "m1", !.event = "transcript.data",
                       !.words = WordArray(<<Word(<<"a">>)>>),
                       !.participant = "Rep"],
   [BasePayload EXCEPT !.data_bot_dot_id = "m1", !.event = "bot.done"],
   [BasePayload EXCEPT !.data_bot_dot_id = "m1", !.event = "call.ended"],
   [BasePayload EXCEPT !.data_bot_dot_id = "m2", !.event = "transcript.data",
                       !.words = WordArray(<<Word(<<"a">>)>>),
                       !.participant = "Customer"],
   [BasePayload EXCEPT !.data_bot_dot_id = "m2",
                       !.event = "bot.in_call_recording"],
   [BasePayload EXCEPT !.data_bot_dot_id = "m2", !.event = "bot.done"]}

\* a delivery kept with its request number, its answer and the session of
\* the meeting it names before the handler ran (<<>> when the store had none)
DeliverTraced(p, max) ==
  /\ DeliverWithin(p, max)
  /\ LET r == HandleSync(p, calls, secret, now)
         m == ResolveMeetingId(p)
     IN exchange' = [op |-> "webhook", arg |-> p, status |-> r.status,
                     mid |-> r.mid, req |-> delivered + 1,
                     before |-> IF hasCall(calls, m)
                                THEN <<calls[m]>> ELSE <<>>]

EndedNext ==
  \/ \E p \in EndedPayloads : DeliverTraced(p, MaxEnded)
  \/ \E i \in 1..Len(analyses) :
       \E o \in FinalsLlmOutcomes : AnalysisCompletes(i, o)
  \/ Tick

SpecEnded == Init /\ [][EndedNext]_vars

\* the step is the handling of a bot-ended event that names a meeting
BotEndedStep ==
  /\ exchange' # exchange
  /\ exchange'.op = "webhook"
  /\ Accepted(exchange'.arg)
  /\ EventKind(ResolveEventName(exchange'.arg)) = "bot-ended"

\* C21 as claimed: a bot-ended event is answered 200 and leaves its session
\* ended, and applied to a session that is already ended it leaves the
\* transcript log, the coaching log and the participants as they were.
C21_EndedIsIdempotent ==
  [][BotEndedStep
     => LET m == ResolveMeetingId(exchange'.arg)
        IN /\ exchange'.status = 200
           /\ SessionStatus(calls', m) = "ended"
           /\ SessionStatus(calls, m) = "ended"
              => /\ calls'[m].transcripts = calls[m].transcripts
                 /\ calls'[m].coachingRecommendations =
                      calls[m].coachingRecommendations
                 /\ calls'[m].participants = calls[m].participants]_vars


(***************************************************************************)
(* pages/api/settings/prompt.js: the prompt settings API.  A request is a  *)
(* method and a parsed body: null, or an object with the two fields.       *)
(***************************************************************************)
DEFAULT_SYSTEM_PROMPT == Str("DEFAULT_SYSTEM_PROMPT")
DEFAULT_USER_PROMPT == Str("DEFAULT_USER_PROMPT")

PromptBody(s, u) == [kind |-> "object", systemPrompt |-> s, userPrompt |-> u]
NullBody == [kind |-> "null", systemPrompt |-> Undefined, userPrompt |-> Undefined]
PromptRequest(method, body) == [method |-> method, body |-> body]

\* the answer of the API: its status, what kind of JSON it carries, and the
\* prompts and the isDefault flag in it where it has them
PromptAnswer(status, kind, s, u, isDefault) ==
  [status |-> status, kind |-> kind, systemPrompt |-> s, userPrompt |-> u,
   isDefault |-> isDefault]

\* the answer of the catch block
PromptServerError ==
  PromptAnswer(500, "Internal server error", Undefined, Undefined, FALSE)

\* the answer of the handler to request q.  storage.getPrompts and
\* storage.setPrompts are not in StorageMethods: each call of one is a
\* TypeError, which the catch block answers
PromptHandler(q) ==
  IF q.method = "GET"
  THEN PromptServerError                 \* storage.getPrompts() throws
  ELSE IF q.method = "POST"
  THEN IF q.body.kind = "null"
       THEN PromptServerError                 \* destructuring null throws
       ELSE IF Not(q.body.systemPrompt) \/ q.body.systemPrompt.type # "string"
       THEN PromptAnswer(400, "Invalid system prompt",
                         Undefined, Undefined, FALSE)
       ELSE IF Not(q.body.userPrompt) \/ q.body.userPrompt.type # "string"
       THEN PromptAnswer(400, "Invalid user prompt",
                         Undefined, Undefined, FALSE)
       ELSE PromptServerError            \* storage.setPrompts() throws
  ELSE IF q.method = "DELETE"
  THEN PromptServerError                 \* storage.setPrompts() throws
  ELSE PromptAnswer(405, "Method not allowed", Undefined, Undefined, FALSE)

PromptFieldValues ==
  {Undefined, Null, Str(""), Str("P1"), Str("P2"), Num("7"), Arr}

PromptRequests ==
  {PromptRequest(method, NullBody) : method \in {"GET", "POST", "DELETE", "PUT"}}
  \cup {PromptRequest("POST", PromptBody(s, u)) :
          s \in PromptFieldValues, u \in PromptFieldValues}

\* requests the prompt API has answered so far
PromptOps == IF exchange.op = "prompt" THEN exchange.req ELSE 0

\* the pair of the most recent accepted set since the last reset, <<>> if
\* there is none
Written == IF exchange.op = "prompt" THEN exchange.written ELSE <<>>

\* a request to the prompt API is handled; it is kept with its answer
PromptStep(q) ==
  /\ PromptOps < MaxPromptOps
  /\ LET answer == PromptHandler(q)
     IN exchange' =
          [op |-> "prompt", arg |-> q, answer |-> answer,
           req |-> PromptOps + 1,
           written |->
             IF q.method = "POST" /\ answer.status = 200
             THEN <<[systemPrompt |-> q.body.systemPrompt,
                     userPrompt |-> q.body.userPrompt]>>
             ELSE IF q.method = "DELETE" /\ answer.status = 200
             THEN <<>>
             ELSE Written]
  /\ UNCHANGED <<calls, handlers, analyses, responses, delivered, dispatched,
                 answered, failed, now, secret, dashboard>>

PromptsNext == \E q \in PromptRequests : PromptStep(q)

SpecPrompts == Init /\ [][PromptsNext]_vars

\* a set whose systemPrompt or userPrompt is missing, empty or not a string
InvalidSet(q) ==
  /\ q.method = "POST"
  /\ \/ q.body.kind = "null"
     \/ Not(q.body.systemPrompt) \/ q.body.systemPrompt.type # "string"
     \/ Not(q.body.userPrompt) \/ q.body.userPrompt.type # "string"

\* C22 as claimed: a read returns the pair of the most recent accepted set
\* since the last reset, or the built-in defaults with isDefault true when
\* there is none; and a set whose systemPrompt or userPrompt is missing,
\* empty or not a string is answered with a client error (4xx).
C22_LastAcceptedSetIsRead ==
  [][\A q \in PromptRequests :
       PromptStep(q)
       => /\ q.method = "GET"
             => exchange'.answer =
                  IF Written = <<>>
                  THEN PromptAnswer(200, "prompts", DEFAULT_SYSTEM_PROMPT,
                                    DEFAULT_USER_PROMPT, TRUE)
                  ELSE PromptAnswer(200, "prompts", Written[1].systemPrompt,
                                    Written[1].userPrompt, FALSE)
          /\ InvalidSet(q)
             => exchange'.answer.status \in 400..499]_vars


\* a POST whose body is an object without a meeting or bot id and that
\* carries no svix-signature header
Unsigned(p) ==
  /\ p.method = "POST"
  /\ p.body = "object"
  /\ "svix-signature" \notin p.headers
  /\ Falsy(ResolveMeetingId(p))

\* a POST whose body is an object without a meeting or bot id and that
\* lacks at least one of the three svix headers
NotAllHeaders(p) ==
  /\ p.method = "POST"
  /\ p.body = "object"
  /\ ~HasSvixHeaders(p)
  /\ Falsy(ResolveMeetingId(p))

\* C24 as claimed: with a secret set, a POST that carries no signature is
\* answered 401 'Invalid signature' and changes nothing; without a secret
\* the same POST, its body naming no meeting or bot, is answered 400.
C24_UnsignedRejectedWithSecret ==
  [][(delivered' = delivered + 1 /\ Unsigned(exchange'.arg))
     => /\ exchange'.status = IF secret THEN 401 ELSE 400
        /\ calls' = calls]_vars

\* C24, amended: whether or not a secret is set, a POST that carries no
\* signature, or not all three svix headers, and whose body names no
\* meeting or bot is answered 400 'Missing meeting_id or bot_id' and
\* changes nothing; 401 'Invalid signature' is the answer only with a
\* secret set and the three svix headers present, and then whenever the
\* signature does not verify.
C24_UnsignedReachesIdCheck ==
  [][delivered' = delivered + 1
     => /\ (Unsigned(exchange'.arg) \/ NotAllHeaders(exchange'.arg))
           => /\ exchange'.status = 400
              /\ Response(Absent, Absent, 400) \in responses'
              /\ calls' = calls
              /\ handlers' = handlers
              /\ analyses' = analyses
        /\ exchange'.status = 401
           => secret /\ HasSvixHeaders(exchange'.arg)
        /\ (/\ exchange'.arg.method = "POST"
            /\ secret
            /\ HasSvixHeaders(exchange'.arg)
            /\ exchange'.arg.svix = "invalid")
           => exchange'.status = 401]_vars

\* C24 witness: with a secret set, a POST without any svix header and
\* without an id has been answered 400, and the store is empty.
C24_Witness ==
  /\ secret
  /\ exchange.op = "webhook"
  /\ exchange.arg.headers = {}
  /\ exchange.arg.body = "object"
  /\ Falsy(ResolveMeetingId(exchange.arg))
  /\ exchange.status = 400
  /\ DOMAIN calls = {}


\* the speakers of the segments of a log
LogSpeakers(log) == {log[i].speaker : i \in 1..Len(log)}

\* the largest speaker_id, and the largest position, of a fetched segment
MaxSpeakerId == 7

\* the labels the transcript.done branch generates
SpeakerLabels == {SpeakerLabel(n) : n \in 1..MaxSpeakerId}

\* what a source that names no speaker is stored under: 'Unknown' for a
\* real-time event, a generated label for a fetched segment
UnnamedSpeakersGetDefaults ==
  /\ \A p \in RealtimeWithText :
       Falsy(p.participant) => TranscriptSpeaker(p) = "Unknown"
  /\ \A b \in FetchedBodies :
       \A i \in 1..Len(b.items) :
         Falsy(b.items[i].speaker) => BulkSpeaker(b.items[i], i) \in SpeakerLabels

\* C25: in every reachable state the participants of a session are exactly
\* the speakers of its stored segments, and no stored segment has a missing
\* or empty speaker: a source that names none is stored under 'Unknown'
\* (real-time) or a generated 'Speaker k' label (fetched transcript).
C25_ParticipantsEqualSpeakers ==
  /\ UnnamedSpeakersGetDefaults
  /\ \A m \in DOMAIN calls :
       /\ calls[m].participants = LogSpeakers(calls[m].transcripts)
       /\ \A i \in 1..Len(calls[m].transcripts) :
            ~Falsy(calls[m].transcripts[i].speaker)

\* C25 witness: a session holds a real-time segment stored under 'Unknown'
\* and a fetched segment stored under a generated label, and both are its
\* participants.
C25_Witness ==
  \E m \in DOMAIN calls :
    /\ LogLen(calls, m) = 2
    /\ calls[m].participants = {"Unknown", "Speaker 1"}
    /\ \E i \in 1..2 : calls[m].transcripts[i].source = "transcript.done"


(***************************************************************************)
(* pages/index.js: the coaching dashboard.  Once its route has a meeting   *)
(* id it fetches /api/coaching/<id>?latest=true, at once and then on a     *)
(* timer, and keeps result.data.status || 'unknown' as its meetingStatus.  *)
(* A fetchData call in flight is "sent" (the request is on its way),       *)
(* "answered" (the API has read the store and answered; fetch() is still   *)
(* pending) or "json" (fetch() has resolved; response.json() is pending).  *)
(***************************************************************************)
\* result.data.status of an answer of the coaching API: the data of the
\* latest slice has the keys meetingId, coaching, transcripts and
\* lastUpdate, and the data of a full session is the call context
DataStatus(answer) ==
  IF answer.kind = "full" /\ "status" \in DOMAIN answer.data
  THEN answer.data.status ELSE Absent

\* the meetingStatus after fetchData has handled the answer
StatusShown(answer, meetingStatus) ==
  IF answer.status = 200 THEN Or(DataStatus(answer), "unknown")
  ELSE meetingStatus

\* meetingStatus === 'ended' ? 30000 : 5000
PollInterval(meetingStatus) == IF meetingStatus = "ended" THEN 30000 ELSE 5000

\* a fetchData call that has just sent its request
SentFetch == [stage |-> "sent", answer |-> <<>>]

\* the route gets its meeting id
Open(m) ==
  /\ dashboard.meetingId = Absent
  /\ dashboard' = [dashboard EXCEPT !.meetingId = m]
  /\ UNCHANGED <<calls, handlers, analyses, responses, delivered, dispatched,
                 answered, failed, now, secret, exchange>>

\* meetingId or meetingStatus differs from what the effect last ran with:
\* the effect runs again, clears its interval, calls fetchData when there
\* is a meeting id and sets the interval anew
EffectRuns ==
  /\ EffectDeps(dashboard) # dashboard.effect
  /\ dashboard' =
       [dashboard EXCEPT
          !.effect = EffectDeps(dashboard),
          !.fetching = IF dashboard.meetingId = Absent THEN @
                       ELSE Append(@, SentFetch)]
  /\ UNCHANGED <<calls, handlers, analyses, responses, delivered, dispatched,
                 answered, failed, now, secret, exchange>>

\* the interval timer the effect has set fires: fetchData is called again
Poll ==
  /\ dashboard.effect.meetingId # Absent
  /\ Len(dashboard.fetching) < MaxInflight
  /\ dashboard' = [dashboard EXCEPT !.fetching = Append(@, SentFetch)]
  /\ UNCHANGED <<calls, handlers, analyses, responses, delivered, dispatched,
                 answered, failed, now, secret, exchange>>

\* the coaching API handles the request of the i-th fetchData call
Serve(i) ==
  /\ dashboard.fetching[i].stage = "sent"
  /\ LET q == [method |-> "GET", meetingId |-> dashboard.meetingId,
               latest |-> "true"]
     IN /\ dashboard' =
             [dashboard EXCEPT
                !.fetching[i] = [stage |-> "answered",
                                 answer |-> <<QueryAnswer(q, calls)>>]]
        /\ calls' = QueryStore(q, calls, now)
  /\ UNCHANGED <<handlers, analyses, responses, delivered, dispatched,
                 answered, failed, now, secret, exchange>>

\* await fetch(...) resolves: fetchData goes on to response.json()
FetchResolves(i) ==
  /\ dashboard.fetching[i].stage = "answered"
  /\ dashboard' = [dashboard EXCEPT !.fetching[i].stage = "json"]
  /\ UNCHANGED <<calls, handlers, analyses, responses, delivered, dispatched,
                 answered, failed, now, secret, exchange>>

\* await response.json() resolves: fetchData sets the state of the page
JsonResolves(i) ==
  /\ dashboard.fetching[i].stage = "json"
  /\ dashboard' =
       [dashboard EXCEPT
          !.meetingStatus = StatusShown(dashboard.fetching[i].answer[1],
                                        dashboard.meetingStatus),
          !.fetching = RemoveAt(dashboard.fetching, i)]
  /\ UNCHANGED <<calls, handlers, analyses, responses, delivered, dispatched,
                 answered, failed, now, secret, exchange>>

DashboardNext ==
  \/ \E p \in EndedPayloads \cup ActivatedPosts : DeliverTraced(p, MaxPolled)
  \/ \E i \in 1..Len(analyses) :
       \E o \in FinalsLlmOutcomes : AnalysisCompletes(i, o)
  \/ \E m \in MeetingIds : Open(m)
  \/ EffectRuns
  \/ Poll
  \/ \E i \in 1..Len(dashboard.fetching) : Serve(i)
  \/ \E i \in 1..Len(dashboard.fetching) : FetchResolves(i)
  \/ \E i \in 1..Len(dashboard.fetching) : JsonResolves(i)

\* the effect runs when its dependencies change, the timer keeps fetchData
\* running, every request is answered, every promise settles and every
\* queued then-callback runs
SpecDashboard ==
  /\ Init /\ [][DashboardNext]_vars
  /\ WF_vars(EffectRuns)
  /\ WF_vars(Poll)
  /\ WF_vars(\E i \in 1..Len(dashboard.fetching) : Serve(i))
  /\ WF_vars(\E i \in 1..Len(dashboard.fetching) : FetchResolves(i))
  /\ WF_vars(\E i \in 1..Len(dashboard.fetching) : JsonResolves(i))
  /\ WF_vars(\E i \in 1..Len(analyses) :
               \E o \in FinalsLlmOutcomes : AnalysisCompletes(i, o))

\* C26 as claimed: once the webhook has handled a bot-ended event for the
\* meeting a dashboard polls, the dashboard eventually has meetingStatus
\* 'ended' (and with it the 30 s interval).
C26_DashboardSeesEnded ==
  \A m \in MeetingIds :
    (/\ dashboard.meetingId = m
     /\ exchange.op = "webhook"
     /\ Accepted(exchange.arg)
     /\ ResolveMeetingId(exchange.arg) = m
     /\ EventKind(ResolveEventName(exchange.arg)) = "bot-ended")
      ~> (dashboard.meetingStatus = "ended"
          /\ PollInterval(dashboard.meetingStatus) = 30000)


(***************************************************************************)
(* The two-meeting scenario: transcript, transcript.done and bot status    *)
(* events for two meetings, delivered in any order while the clock runs    *)
(* and the fetches and analyses they start complete.                       *)
(***************************************************************************)
IsolatedPayloads ==
  {[BasePayload EXCEPT !.data_bot_dot_id = m, !.event = "transcript.data",
                       !.words = WordArray(<<Word(<<"a">>)>>),
                       !.participant = "Rep"] : m \in MeetingIds}
  \cup {[BasePayload EXCEPT !.data_bot_dot_id = "m1",
                            !.event = "transcript.done",
                            !.transcript_id = "t1"],
        [BasePayload EXCEPT !.data_bot_dot_id = "m1",
                            !.event = "bot.in_call_recording"],
        [BasePayload EXCEPT !.data_bot_dot_id = "m2", !.event = "bot.done"]}

IsolatedBodies ==
  {FetchedBody("invalid", <<>>), FetchedBody("array", <<SegA, SegA>>)}

IsolatedNext ==
  \/ \E p \in IsolatedPayloads : DeliverTraced(p, MaxIsolated)
  \/ \E i \in 1..Len(handlers) : \E o \in FetchOutcomes : FetchCompletes(i, o)
  \/ \E i \in 1..Len(handlers) : \E b \in IsolatedBodies : JsonCompletes(i, b)
  \/ \E i \in 1..Len(analyses) :
       \E o \in FinalsLlmOutcomes : AnalysisCompletes(i, o)
  \/ Tick

SpecIsolated == Init /\ [][IsolatedNext]_vars

\* the meeting the step works for: that of the request delivered, of the
\* analysis that completes, or of the suspended handler that goes on
StepMeetings ==
  IF delivered' # delivered THEN {exchange'.mid}
  ELSE IF analyses' # analyses
    THEN {m \in MeetingIds : answered'[m] # answered[m] \/ failed'[m] # failed[m]}
  ELSE IF handlers' # handlers
    THEN {handlers[i].mid : i \in {j \in 1..Len(handlers) :
                                     \/ handlers' = RemoveAt(handlers, j)
                                     \/ handlers' = [handlers EXCEPT ![j].pc = "json"]}}
  ELSE {}

\* C27: a step that handles a webhook event of meeting A, completes an
\* analysis dispatched for A or resumes a handler of A leaves every other
\* session as it was (logs, participants, status, timestamps) and creates
\* no session but A's.
C27_SessionsIsolated ==
  [][\A b \in MeetingIds \ StepMeetings :
       /\ hasCall(calls', b) <=> hasCall(calls, b)
       /\ hasCall(calls, b) => calls'[b] = calls[b]]_vars

\* C27 witness: m1 has segments stored at time 1 and an analysis dispatched
\* for it has completed, while m2 still has the segment and the timestamps
\* of time 0.
C27_Witness ==
  /\ hasCall(calls, "m1") /\ hasCall(calls, "m2")
  /\ LogLen(calls, "m1") >= MinContext
  /\ answered["m1"] + failed["m1"] >= 1
  /\ calls["m1"].lastUpdate = 1
  /\ LogLen(calls, "m2") = 1
  /\ calls["m2"].lastUpdate = 0
  /\ CoachLen(calls, "m2") = 0


\* C28 as claimed: with two analyses in flight for one session, the one
\* that completes with a response, be it the one dispatched first or the
\* one dispatched later, has its entry put at the end of the coaching log
\* of the session, where it is the first element of the latest slice.
C28_StoredInCompletionOrder ==
  [][\A i \in 1..Len(analyses) :
       \A o \in FinalsLlmOutcomes :
         (/\ o.kind = "message"
          /\ AnalysisCompletes(i, o)
          /\ \E j \in 1..Len(analyses) :
               j # i /\ analyses[j].mid = analyses[i].mid)
         => LET m == analyses[i].mid
                old == IF hasCall(calls, m)
                       THEN calls[m].coachingRecommendations ELSE <<>>
                new == IF hasCall(calls', m)
                       THEN calls'[m].coachingRecommendations ELSE <<>>
            IN /\ Len(new) = Len(old) + 1
               /\ IsPrefix(old, new)
               /\ Last(new).from = analyses[i].id
               /\ getLatestCoaching(calls', m, LatestCoachingLimit)[1].from =
                    analyses[i].id]_vars


\* the window of the analysis the n-th append of a log dispatches: the last
\* min(5, n) of the first n segments, most recent first
WindowAt(log, n) ==
  [i \in 1..Min(WindowSize, n) |-> log[n + 1 - i]]

\* every analysis in flight has the window of the append that dispatched it
WindowIsOfDispatch ==
  \A j \in 1..Len(analyses) :
    LET a == analyses[j]
        n == a.id + MinContext - 1
    IN /\ hasCall(calls, a.mid)
       /\ n <= LogLen(calls, a.mid)
       /\ a.window = WindowAt(calls[a.mid].transcripts, n)

\* no step changes the window of an analysis that stays in flight
WindowsKept ==
  \A i \in 1..Len(analyses) :
    \A j \in 1..Len(analyses') :
      analyses'[j].id = analyses[i].id
      => analyses'[j].window = analyses[i].window

\* C30: the window of an analysis in flight is, whatever has been appended
\* since, the last min(5, n) segments of the log as it stood after the n-th
\* append, the one that dispatched it, most recent first; and no step
\* changes it.
C30_WindowIsSnapshot == [](WindowIsOfDispatch) /\ [][WindowsKept]_vars

\* C30 witness: an analysis is in flight whose window of five is no longer
\* the most recent five segments of its session, which has grown since the
\* analysis was dispatched.
C30_Witness ==
  \E j \in 1..Len(analyses) :
    LET a == analyses[j]
    IN /\ Len(a.window) = WindowSize
       /\ LogLen(calls, a.mid) > a.id + MinContext - 1
       /\ a.window # getRecentTranscripts(calls, a.mid, WindowSize)
       /\ a.window[1] = calls[a.mid].transcripts[a.id + MinContext - 1]


(***************************************************************************)
(* The append scenario: one session is written by real-time transcript     *)
(* events, by the fetched transcript of a transcript.done whose handler    *)
(* is suspended meanwhile, and by storage.addCoaching, while the analyses  *)
(* dispatched complete.  The then-callback of an analysis calls            *)
(* addCoaching only for a result with success: true; the scenario also     *)
(* calls the method of the exported store directly, with a coaching        *)
(* object of either kind.                                                  *)
(***************************************************************************)
AppendPayloads ==
  {[BasePayload EXCEPT !.data_bot_dot_id = "m1", !.event = "transcript.data",
                       !.words = WordArray(<<Word(<<"a">>)>>),
                       !.participant = "Rep"],
   [BasePayload EXCEPT !.data_bot_dot_id = "m1", !.event = "transcript.done",
                       !.transcript_id = "t1"]}

CoachingObjects ==
  {[kind |-> k, members |-> 6, from |-> 0, timestamp |-> 0] :
     k \in {"parsed", "fallback"}}

\* storage.addCoaching(m, coaching) is called
StoreCoaching(m, coaching) ==
  /\ CoachLen(calls, m) < MaxCoached
  /\ calls' = addCoaching(calls, m, coaching, now)
  /\ UNCHANGED <<handlers, analyses, responses, delivered, dispatched,
                 answered, failed, now, secret, exchange, dashboard>>

AppendsNext ==
  \/ \E p \in AppendPayloads :
       DeliverWithin(p, MaxAppends) /\ UNCHANGED exchange
  \/ \E i \in 1..Len(handlers) : \E o \in FetchOutcomes : FetchCompletes(i, o)
  \/ \E i \in 1..Len(handlers) : \E b \in IsolatedBodies : JsonCompletes(i, b)
  \/ \E i \in 1..Len(analyses) :
       \E o \in FinalsLlmOutcomes : AnalysisCompletes(i, o)
  \/ \E c \in CoachingObjects : StoreCoaching("m1", c)

SpecAppends == Init /\ [][AppendsNext]_vars

\* C8: in every step, whichever webhook handler, analysis completion or
\* call of storage.addCoaching takes it, every session stays in the store
\* with its transcript log and its coaching log as prefixes of the new ones; and no append is lost: a
\* real-time event with text puts its segment at the end of the transcript
\* log, a fetched transcript of two segments puts both there in their
\* order, and a coaching object stored is put at the end of the coaching
\* log.
C8_AppendOnly ==
  [][/\ \A m \in DOMAIN calls :
          /\ m \in DOMAIN calls'
          /\ IsPrefix(calls[m].transcripts, calls'[m].transcripts)
          /\ IsPrefix(calls[m].coachingRecommendations,
                      calls'[m].coachingRecommendations)
     /\ \A p \in AppendPayloads :
          (p.event = "transcript.data" /\ DeliverWithin(p, MaxAppends))
          => /\ LogLen(calls', "m1") = LogLen(calls, "m1") + 1
             /\ Last(calls'["m1"].transcripts).text = TranscriptText(p.words)
             /\ CoachLen(calls', "m1") = CoachLen(calls, "m1")
     /\ \A i \in 1..Len(handlers) :
          JsonCompletes(i, FetchedBody("array", <<SegA, SegA>>))
          => LET n == LogLen(calls, "m1")
             IN /\ LogLen(calls', "m1") = n + 2
                /\ calls'["m1"].transcripts[n + 1].text = SegA.text
                /\ calls'["m1"].transcripts[n + 2].text = SegA.text
                /\ CoachLen(calls', "m1") = CoachLen(calls, "m1")
     /\ \A c \in CoachingObjects :
          StoreCoaching("m1", c)
          => /\ CoachLen(calls', "m1") = CoachLen(calls, "m1") + 1
             /\ Last(calls'["m1"].coachingRecommendations).kind = c.kind
             /\ LogLen(calls', "m1") = LogLen(calls, "m1")
     /\ \A i \in 1..Len(analyses) :
          \A o \in FinalsLlmOutcomes :
            AnalysisCompletes(i, o)
            => \A m \in DOMAIN calls :
                 calls'[m].transcripts = calls[m].transcripts]_vars

\* C8 witness: the handler of the first delivery, a transcript-done, is
\* still suspended at its fetch while later deliveries have appended three
\* segments to the same session, the analysis the third dispatched has
\* completed, and two coaching objects of different kinds are in the
\* coaching log in the order they were stored.
C8_Witness ==
  \E j \in 1..Len(handlers) :
    /\ handlers[j].req = 1
    /\ handlers[j].mid = "m1"
    /\ LogLen(calls, "m1") >= MinContext
    /\ answered["m1"] + failed["m1"] >= 1
    /\ CoachLen(calls, "m1") = 2
    /\ calls["m1"].coachingRecommendations[1].kind = "fallback"
    /\ calls["m1"].coachingRecommendations[2].kind = "parsed"

(***************************************************************************)
(* The read scenario: the coaching API, and through it the getters of the  *)
(* store, is used at any moment of the handling of webhook requests for    *)
(* one meeting:                                                            *)
(* between deliveries, while the handler of a transcript.done is suspended *)
(* at its fetch or at its json(), and while analyses are in flight.        *)
(***************************************************************************)
ReadNext ==
  \/ \E p \in AppendPayloads :
       DeliverWithin(p, MaxRead) /\ UNCHANGED exchange
  \/ \E i \in 1..Len(handlers) : \E o \in FetchOutcomes : FetchCompletes(i, o)
  \/ \E i \in 1..Len(handlers) : \E b \in IsolatedBodies : JsonCompletes(i, b)
  \/ \E i \in 1..Len(analyses) :
       \E o \in FinalsLlmOutcomes : AnalysisCompletes(i, o)
  \/ \E q \in Queries : Query(q)

SpecRead == Init /\ [][ReadNext]_vars

\* C23: the store changes only in a step that handles a webhook request or
\* completes an analysis or a handler; a query of the coaching API (full
\* session or latest slice, known or unknown meeting), taken in any state
\* of the webhook handling, leaves every session as it was and creates
\* none.
C23_QueriesReadOnly ==
  [][/\ (exchange' # exchange /\ exchange'.op \in {"coaching", "storage"})
        => calls' = calls
     /\ calls' # calls
        => \/ delivered' # delivered
           \/ analyses' # analyses
           \/ handlers' # handlers]_vars

\* C23 witness: the full session of m1 has been answered with the session
\* as stored while the handler of a transcript.done of m1 is suspended and
\* an analysis of m1 is in flight; m2, of which the latest slice could have
\* been asked, has no session.
C23_Witness ==
  /\ exchange.op = "coaching"
  /\ exchange.arg = [method |-> "GET", meetingId |-> "m1", latest |-> Absent]
  /\ exchange.answer.status = 200
  /\ hasCall(calls, "m1")
  /\ exchange.answer.data = calls["m1"]
  /\ LogLen(calls, "m1") >= MinContext
  /\ Len(analyses) >= 1
  /\ \E j \in 1..Len(handlers) : handlers[j].mid = "m1"
  /\ ~hasCall(calls, "m2")

(***************************************************************************)
(* The removal scenario: deleteCall and clear of the exported store are    *)
(* called at any moment of the handling of webhook requests for two        *)
(* meetings: between deliveries, while the handler of a transcript.done is *)
(* suspended, and while analyses are in flight.  No handler under src      *)
(* calls either method; the scenario calls them directly.                  *)
(***************************************************************************)
\* storage.deleteCall(m) is called
DeleteCall(m) ==
  /\ calls' = deleteCall(calls, m)
  /\ UNCHANGED <<handlers, analyses, responses, delivered, dispatched,
                 answered, failed, now, secret, exchange, dashboard>>

\* storage.clear() is called
Clear ==
  /\ calls' = clear(calls)
  /\ UNCHANGED <<handlers, analyses, responses, delivered, dispatched,
                 answered, failed, now, secret, exchange, dashboard>>

RemovedNext ==
  \/ \E p \in IsolatedPayloads :
       DeliverWithin(p, MaxRemoved) /\ UNCHANGED exchange
  \/ \E i \in 1..Len(handlers) : \E o \in FetchOutcomes : FetchCompletes(i, o)
  \/ \E i \in 1..Len(handlers) : \E b \in IsolatedBodies : JsonCompletes(i, b)
  \/ \E i \in 1..Len(analyses) :
       \E o \in FinalsLlmOutcomes : AnalysisCompletes(i, o)
  \/ \E m \in MeetingIds : DeleteCall(m)
  \/ Clear

SpecRemoved == Init /\ [][RemovedNext]_vars

\* C29 as claimed: when an analysis whose LLM call is answered with a
\* message completes after the session of its meeting was removed from the
\* store, the store holds a session for that meeting again, with an empty
\* transcript log, no participants and exactly the one coaching entry of
\* that analysis.
C29_RecreatedByCompletion ==
  [][\A i \in 1..Len(analyses) :
       \A o \in FinalsLlmOutcomes :
         (/\ AnalysisCompletes(i, o)
          /\ o.kind = "message"
          /\ ~hasCall(calls, analyses[i].mid))
         => /\ hasCall(calls', analyses[i].mid)
            /\ calls'[analyses[i].mid].transcripts = <<>>
            /\ getParticipants(calls', analyses[i].mid) = {}
            /\ CoachLen(calls', analyses[i].mid) = 1]_vars

====
